---- MODULE Spec2Model ----
(***************************************************************************)
(* Model of the query-processing pipeline of Multilingual_Agentic_RAG:     *)
(* the retriever's fusion / rerank (agents/retriever.py), the validator's  *)
(* model-based + automated checks (agents/validator.py) and the            *)
(* orchestrator's stage sequence (agents/orchestrator.py).                 *)
(*                                                                         *)
(* Scores and confidences are integers in hundredths: 100 stands for 1.0,  *)
(* 5 for the 0.05 rerank bonus, 60 for the 0.6 validation clamp.  The      *)
(* analyzer's confidence divides by the number of documents, so it is kept *)
(* in a finer unit (AnalysisOne stands for 1.0) in which it is exact.      *)
(***************************************************************************)
EXTENDS Integers, Sequences, FiniteSets, TLC

VARIABLES
    \* ---- RetrieverAgent.execute: one call ----
    store,          \* the vector index: score of each document for each query text
    rArgs,          \* the arguments of the call
    rPc,            \* "call" | "done" | "error"
    rLocals,        \* execute's locals all_documents and unique_documents
    rResult,        \* the returned dictionary
    rError,         \* the AgentError raised
    \* ---- ValidatorAgent.execute: one call ----
    vArgs,          \* the arguments of the call: answer, documents
    vLlm,           \* what the text-generation call does: a response, or a failure
    vPc,            \* "call" | "done"
    vResult,        \* the returned dictionary
    \* ---- AnalyzerAgent.execute: one call ----
    aArgs,          \* the arguments of the call (documents) and the text the
                    \* text-generation call would give
    aPc,            \* "call" | "done" | "error"
    aResult,        \* the returned dictionary
    \* ---- RouterAgent.execute: one call ----
    rtLlm,          \* what the text-generation call does: a response, or a failure
    rtPc,           \* "idle" | "call" | "done" | "error"
    rtResult,       \* the returned dictionary
    rtWarnings,     \* the warning-level events the router logged during the call
    \* ---- SynthesizerAgent.execute: one call ----
    sArgs,          \* the query type, and the text the text-generation call gives
    sPc,            \* "idle" | "call" | "done" | "error"
    sResult,        \* the returned dictionary
    \* ---- LanguageDetector.detect: one call ----
    dArgs,          \* the text, the fallback language and what langdetect does
    dPc,            \* "idle" | "call" | "done"
    dResult,        \* the returned pair
    \* ---- the agents' counters (BaseAgent.stats) ----
    stats,          \* per agent: calls made and cost accumulated
    \* ---- RAGOrchestrator.process_query: one call ----
    pc,             \* "idle", the workflow node to run next, "respond",
                    \* "returned" or "raised"
    state,          \* the RAGState threaded through the nodes
    nodesRun,       \* the nodes invoked so far, in order
    finalResult,    \* the dictionary returned to the caller
    raised,         \* the errors raised to the caller, in order
    pending,        \* process_query calls the client has yet to make
    statsAtCall,    \* the agents' counters as the current call found them
    emptyAnswers    \* the answers returned so far to queries that retrieved nothing

retrieverVars == <<store, rArgs, rPc, rLocals, rResult, rError>>
validatorVars == <<vArgs, vLlm, vPc, vResult>>
analyzerVars == <<aArgs, aPc, aResult>>
routerVars == <<rtLlm, rtPc, rtResult, rtWarnings>>
synthesizerVars == <<sArgs, sPc, sResult>>
detectorVars == <<dArgs, dPc, dResult>>
pipelineVars == <<pc, state, nodesRun, finalResult, raised, pending, statsAtCall,
                  emptyAnswers>>
vars == <<retrieverVars, validatorVars, analyzerVars, routerVars, synthesizerVars,
          detectorVars, stats, pipelineVars>>

\* ---------------------------------------------------------------- bounds
\* Longest list of search queries handed to the retriever.
MaxQueries == 2
\* Largest top_k a caller passes.
MaxTopK == 2
\* Longest generated answer, in tokens (a word, or a citation marker).
MaxAnswerTokens == 3

\* ------------------------------------------------------- program constants
TOP_K_RETRIEVAL == 25
TOP_K_RERANK == 5
MIN_SIMILARITY_SCORE == 70
\* 1.0, the cap of a rerank score
ScoreOne == 100
\* 0.05, the bonus per extra query match
QueryBonus == 5
\* No 'rerank_score' key in the document dictionary.
NoRerankScore == -1

\* ------------------------------------------------------------ the corpus
QueryTexts == {"q1", "q2"}
DocOrder == <<"doc1", "doc2", "doc3">>
DocIds == {DocOrder[i] : i \in DOMAIN DocOrder}
\* Every document id of a corpus, in the order the index lists them.
CorpusOrder == <<"doc1", "doc2", "doc3", "doc4", "doc5", "doc6", "doc7">>
\* doc1 and doc2 carry the same passage text under different ids.
TextOf(id) == IF id = "doc3" THEN "text B" ELSE "text A"
\* len(text): "text A" is a short passage, "text B" a long one.
TextLength(text) == IF text = "text B" THEN 450 ELSE 150
OwnerOf(id) == IF id = "doc3" THEN "u2" ELSE "u1"
LanguageOf(id) == IF id = "doc2" THEN "hi" ELSE "en"
\* Similarity a search may report for a (query, document) pair; 50 is under the
\* minimum-score threshold.
ScoreOpts == {50, 80, 97}
Stores == [QueryTexts -> [DocIds -> ScoreOpts]]
\* filters: a set of <<key, value>> pairs; {} is None / the empty mapping.
NoFilters == {}

\* ------------------------------------------------------------- helpers
Min(a, b) == IF a <= b THEN a ELSE b
Max(a, b) == IF a >= b THEN a ELSE b

SeqRange(s) == {s[i] : i \in DOMAIN s}

\* Mutant: the slice keeps the whole list.
TakeAll(s, n) == s

\* s[:n]
Take(s, n) == SubSeq(s, 1, Min(n, Len(s)))

RECURSIVE Flatten(_)
Flatten(ss) == IF ss = <<>> THEN <<>> ELSE Head(ss) \o Flatten(Tail(ss))

\* Python's sorted(..., reverse=True) is stable: elements with equal keys keep
\* their input order.  Pairs are <<key, element>>.
RECURSIVE InsertDesc(_, _)
InsertDesc(p, s) ==
    IF s = <<>> THEN <<p>>
    ELSE IF Head(s)[1] >= p[1] THEN <<Head(s)>> \o InsertDesc(p, Tail(s))
    ELSE <<p>> \o s

\* Mutant: the list is left in its input order.
SortPairsUnsorted(ps) == ps

\* Mutant: the list is sorted in increasing order and then reversed, which
\* turns elements of equal key around.
RECURSIVE InsertBeforeEquals(_, _)
InsertBeforeEquals(p, s) ==
    IF s = <<>> THEN <<p>>
    ELSE IF Head(s)[1] > p[1] THEN <<Head(s)>> \o InsertBeforeEquals(p, Tail(s))
    ELSE <<p>> \o s
RECURSIVE SortPairsAscReversed(_)
SortPairsAscReversed(ps) ==
    IF ps = <<>> THEN <<>>
    ELSE InsertBeforeEquals(ps[Len(ps)],
                            SortPairsAscReversed(SubSeq(ps, 1, Len(ps) - 1)))

RECURSIVE SortPairsDesc(_)
SortPairsDesc(ps) ==
    IF ps = <<>> THEN <<>>
    ELSE InsertDesc(ps[Len(ps)], SortPairsDesc(SubSeq(ps, 1, Len(ps) - 1)))

Unpair(ps) == [i \in DOMAIN ps |-> ps[i][2]]

\* sorted(docs, key=lambda x: x['score'], reverse=True)
SortedByScore(docs) ==
    Unpair(SortPairsDesc([i \in DOMAIN docs |-> <<docs[i].score, docs[i]>>]))

\* ------------------------------------------------- vector-search collaborator
MatchesFilters(id, filters) ==
    \A f \in filters : /\ (f[1] = "user_id" => OwnerOf(id) = f[2])
                        /\ (f[1] = "language" => LanguageOf(id) = f[2])

\* search(query, top_k, filters, score_threshold): the documents passing the
\* filter whose score reaches the threshold, best first, at most top_k.
VectorSearch(st, query, top_k, filters, score_threshold) ==
    LET hits == SelectSeq(CorpusOrder,
                    LAMBDA id : /\ id \in DOMAIN st[query]
                                /\ st[query][id] >= score_threshold
                                /\ MatchesFilters(id, filters))
        docs == [i \in DOMAIN hits |->
                    [id |-> hits[i], text |-> TextOf(hits[i]),
                     score |-> st[query][hits[i]],
                     source_query |-> "", query_index |-> 0,
                     rerank_score |-> NoRerankScore]]
    IN  Take(SortedByScore(docs), top_k)

\* ------------------------------------------------------- RetrieverAgent
\* The loop of execute: search each query, tag each record with the query
\* text and the 1-based number of the query, and extend all_documents.
\* Mutant: a record is tagged with its place in the query's results.
TaggedResultsByPosition(st, search_queries, filters, i) ==
    LET results == VectorSearch(st, search_queries[i], TOP_K_RETRIEVAL,
                                filters, MIN_SIMILARITY_SCORE)
    IN  [k \in DOMAIN results |->
            [results[k] EXCEPT !.source_query = search_queries[i],
                               !.query_index = k]]

TaggedResults(st, search_queries, filters, i) ==
    LET results == VectorSearch(st, search_queries[i], TOP_K_RETRIEVAL,
                                filters, MIN_SIMILARITY_SCORE)
    IN  [k \in DOMAIN results |->
            [results[k] EXCEPT !.source_query = search_queries[i],
                               !.query_index = i]]

AllDocuments(st, search_queries, filters) ==
    Flatten([i \in DOMAIN search_queries |->
                TaggedResults(st, search_queries, filters, i)])

\* The keys of doc_groups in insertion order: each id at its first occurrence.
RECURSIVE GroupKeys(_)
GroupKeys(documents) ==
    IF documents = <<>> THEN <<>>
    ELSE LET rest == GroupKeys(SubSeq(documents, 1, Len(documents) - 1))
             last == documents[Len(documents)].id
         IN  IF last \in SeqRange(rest) THEN rest ELSE Append(rest, last)

Group(documents, doc_id) == SelectSeq(documents, LAMBDA d : d.id = doc_id)

\* Mutant: the first record of the group is kept, whatever its score.
BestDocFirst(group) == group[1]

\* max(group, key=lambda x: x['score']): the first record of the highest score.
BestDoc(group) ==
    LET i == CHOOSE i \in DOMAIN group :
                /\ \A j \in DOMAIN group : group[j].score <= group[i].score
                /\ \A j \in 1..(i - 1) : group[j].score < group[i].score
    IN  group[i]

\* Mutant: the groups are emitted last key first.
DeduplicateReversed(documents) ==
    IF documents = <<>> THEN <<>>
    ELSE LET keys == GroupKeys(documents)
         IN  [k \in DOMAIN keys |->
                BestDoc(Group(documents, keys[Len(keys) + 1 - k]))]

\* _deduplicate: one record per id, in the order the ids first occur.
Deduplicate(documents) ==
    IF documents = <<>> THEN <<>>
    ELSE LET keys == GroupKeys(documents)
         IN  [k \in DOMAIN keys |-> BestDoc(Group(documents, keys[k]))]

\* doc_query_counts: occurrences of the id in the list _rerank was handed.
DocQueryCount(documents, doc_id) ==
    Cardinality({i \in DOMAIN documents : documents[i].id = doc_id})

WithRerankScores(documents) ==
    [i \in DOMAIN documents |->
        [documents[i] EXCEPT !.rerank_score =
            Min(ScoreOne, documents[i].score
                + (DocQueryCount(documents, documents[i].id) - 1) * QueryBonus)]]

\* x.get('rerank_score', x['score'])
RerankKey(d) == IF d.rerank_score = NoRerankScore THEN d.score ELSE d.rerank_score

Rerank(documents, query, top_k) ==
    LET scored == WithRerankScores(documents)
    IN  Take(Unpair(SortPairsDesc(
            [i \in DOMAIN scored |-> <<RerankKey(scored[i]), scored[i]>>])), top_k)

\* top_k = top_k or settings.TOP_K_RERANK
EffectiveTopK(top_k) == IF top_k = 0 THEN TOP_K_RERANK ELSE top_k

RerankPath(unique_documents, top_k, rerank) ==
    rerank /\ Len(unique_documents) > EffectiveTopK(top_k)

FinalDocuments(unique_documents, search_queries, top_k, rerank) ==
    IF RerankPath(unique_documents, top_k, rerank)
    THEN Rerank(unique_documents, search_queries[1], EffectiveTopK(top_k))
    ELSE Take(SortedByScore(unique_documents), EffectiveTopK(top_k))

RetrieverLocals(st, search_queries, filters) ==
    LET all_documents == AllDocuments(st, search_queries, filters)
    IN  [all_documents |-> all_documents,
         unique_documents |-> Deduplicate(all_documents)]

RetrieverExecute(st, search_queries, filters, top_k, rerank) ==
    LET all_documents == RetrieverLocals(st, search_queries, filters).all_documents
        unique_documents == RetrieverLocals(st, search_queries, filters).unique_documents
    IN  [documents |-> FinalDocuments(unique_documents, search_queries, top_k, rerank),
         total_retrieved |-> Len(all_documents),
         unique_documents |-> Len(unique_documents),
         query_count |-> Len(search_queries),
         filters_applied |-> filters]

NoResult == [documents |-> <<>>, total_retrieved |-> 0, unique_documents |-> 0,
             query_count |-> 0, filters_applied |-> NoFilters]
NoLocals == [all_documents |-> <<>>, unique_documents |-> <<>>]
NoError == [agent_name |-> "", message |-> ""]


\* ======================================================== ValidatorAgent
\* A generated text is a sequence of tokens joined by single spaces: a plain
\* word, the word "unclear", or a citation marker "[Doc ID:<raw>]" whose raw
\* content is a sequence of symbols, " " being whitespace.
WordTok == [kind |-> "word", raw |-> <<>>]
UnclearTok == [kind |-> "unclear", raw |-> <<>>]
Cite(raw) == [kind |-> "cite", raw |-> raw]
CiteDoc1 == Cite(<<" ", "doc1">>)
CiteDoc1Padded == Cite(<<" ", "doc1", " ">>)
CiteDoc999 == Cite(<<" ", "doc999">>)
AnswerTokens == {WordTok, UnclearTok, CiteDoc1, CiteDoc1Padded, CiteDoc999}
Answers == UNION {[1..n -> AnswerTokens] : n \in 0..MaxAnswerTokens}

\* The characters of a document id.
IdText(id) == <<id>>

Symbols(tok) ==
    IF tok.kind = "cite" THEN <<"[Doc", " ", "ID:">> \o tok.raw \o <<"]">>
    ELSE IF tok.kind = "unclear" THEN <<"unclear">>
    ELSE <<"w">>

\* len(text.split()) of a symbol sequence: its maximal runs of non-whitespace.
RECURSIVE Runs(_)
Runs(syms) ==
    IF syms = <<>> THEN 0
    ELSE IF Head(syms) = " " THEN Runs(Tail(syms))
    ELSE IF Len(syms) > 1 /\ syms[2] # " " THEN Runs(Tail(syms))
    ELSE 1 + Runs(Tail(syms))

RECURSIVE WordCount(_)
WordCount(answer) ==
    IF answer = <<>> THEN 0
    ELSE IF Len(answer) = 1 THEN Runs(Symbols(answer[1]))
    ELSE LET half == Len(answer) \div 2
         IN  WordCount(SubSeq(answer, 1, half))
             + WordCount(SubSeq(answer, half + 1, Len(answer)))

RECURSIVE LStrip(_)
LStrip(syms) ==
    IF syms # <<>> /\ Head(syms) = " " THEN LStrip(Tail(syms)) ELSE syms

\* The group of r'\[Doc ID:\s*([^\]]+)\]': the content after its leading
\* whitespace, up to the closing bracket; of a content that is all
\* whitespace, the last character (the group needs one).
CapturedId(tok) == IF LStrip(tok.raw) = <<>> THEN <<" ">> ELSE LStrip(tok.raw)

\* re.findall(r'\[Doc ID:\s*([^\]]+)\]', answer)
FindCitations(answer) ==
    LET marks == SelectSeq(answer, LAMBDA t : t.kind = "cite" /\ t.raw # <<>>)
    IN  [i \in DOMAIN marks |-> CapturedId(marks[i])]

Issue(kind, arg) == [kind |-> kind, arg |-> arg]
NoCitationsIssue == Issue("No citations found in answer", <<>>)
InvalidCitationIssue(citation) == Issue("Invalid citation: Doc ID", citation)
VeryShortIssue == Issue("Answer is very short (< 5 words)", <<>>)
UncertaintyIssue(phrase) ==
    Issue("Contains uncertainty phrase without explanation", <<phrase>>)
ParseFallbackIssue == Issue("JSON parsing failed, extracted from text", <<>>)
ValidationErrorIssue(message) == Issue("Validation error", <<message>>)
ModelIssue == Issue("model issue", <<>>)

VeryShortWords == 5
UnexplainedWords == 20
uncertainty_phrases == <<"not sure", "don't know", "cannot determine", "unclear">>

\* phrase in answer.lower()
PhraseIn(phrase, answer) ==
    phrase = "unclear" /\ \E i \in DOMAIN answer : answer[i].kind = "unclear"

RunAutomatedChecks(answer, documents) ==
    LET citations == FindCitations(answer)
        doc_ids == {IdText(documents[i].id) : i \in DOMAIN documents}
        invalid == SelectSeq(citations, LAMBDA c : c \notin doc_ids)
        hedged == SelectSeq(uncertainty_phrases,
                    LAMBDA ph : PhraseIn(ph, answer) /\ WordCount(answer) < UnexplainedWords)
    IN  [citations_found |-> Len(citations),
         valid_citations |-> Len(SelectSeq(citations, LAMBDA c : c \in doc_ids)),
         automated_issues |->
            (IF citations = <<>> THEN <<NoCitationsIssue>> ELSE <<>>)
            \o [i \in DOMAIN invalid |-> InvalidCitationIssue(invalid[i])]
            \o (IF WordCount(answer) < VeryShortWords THEN <<VeryShortIssue>> ELSE <<>>)
            \o [i \in DOMAIN hedged |-> UncertaintyIssue(hedged[i])]]

\* ---- the text-generation call and the parse of its response
\* A response is a JSON object (each of valid, confidence, issues present or
\* not; confidence a number or not; issues a list or not), JSON of another
\* shape, or text that is no JSON.
AbsentNumber == -1
NotANumber == -2
DefaultConfidence == 80
FallbackInvalidConfidence == 60
FallbackValidConfidence == 70
ClampConfidence == 60
FailOpenConfidence == 50

\* Confidences the model may report: 0.4, 0.9, and 1.5, which is no
\* probability but is a number all the same.
ModelConfidences == {40, 90, 150}

JsonObjects ==
    {[kind |-> "json_object", valid |-> v, confidence |-> c,
      issues_kind |-> ik[1], issues |-> ik[2],
      has_valid_word |-> FALSE, has_false_word |-> FALSE] :
        v \in {"true", "false", "absent"},
        c \in ModelConfidences \cup {AbsentNumber, NotANumber},
        ik \in {<<"absent", <<>>>>, <<"other", <<>>>>,
                <<"list", <<>>>>, <<"list", <<ModelIssue>>>>}}
NonObjectJson ==
    {[kind |-> "json_other", valid |-> "absent", confidence |-> AbsentNumber,
      issues_kind |-> "absent", issues |-> <<>>,
      has_valid_word |-> FALSE, has_false_word |-> FALSE]}
PlainTexts ==
    {[kind |-> "text", valid |-> "absent", confidence |-> AbsentNumber,
      issues_kind |-> "absent", issues |-> <<>>,
      has_valid_word |-> a, has_false_word |-> b] : a, b \in BOOLEAN}
LlmResponses == JsonObjects \cup NonObjectJson \cup PlainTexts
CallFailed ==
    [kind |-> "call_failed", valid |-> "absent", confidence |-> AbsentNumber,
     issues_kind |-> "absent", issues |-> <<>>,
     has_valid_word |-> FALSE, has_false_word |-> FALSE]

\* A step of execute yields a value or raises.
Ok(value) == [raised |-> FALSE, message |-> "", value |-> value]
Raised(message, shape) == [raised |-> TRUE, message |-> message, value |-> shape]

LlmResult(valid, confidence, issues_kind, issues) ==
    [valid |-> valid, confidence |-> confidence,
     issues_kind |-> issues_kind, issues |-> issues]
NoLlmResult == LlmResult(TRUE, AbsentNumber, "list", <<>>)
NoAutoChecks == [citations_found |-> 0, valid_citations |-> 0, automated_issues |-> <<>>]

ParseValidation(response) ==
    CASE response.kind = "json_object" ->
            Ok(LlmResult(
                IF response.valid = "absent" THEN TRUE ELSE response.valid = "true",
                IF response.confidence = AbsentNumber THEN DefaultConfidence
                ELSE response.confidence,
                IF response.issues_kind = "absent" THEN "list" ELSE response.issues_kind,
                response.issues))
      [] response.kind = "json_other" ->
            \* json.loads succeeds, the dictionary accesses raise
            Raised("TypeError", NoLlmResult)
      [] OTHER ->
            \* json.JSONDecodeError: the text fallback
            IF response.has_valid_word /\ response.has_false_word
            THEN Ok(LlmResult(FALSE, FallbackInvalidConfidence, "list",
                              <<ParseFallbackIssue>>))
            ELSE Ok(LlmResult(TRUE, FallbackValidConfidence, "list", <<>>))

IsCritical(issue) ==
    issue.kind \in {"Invalid citation: Doc ID", "No citations found in answer"}

\* if critical_issues and combined["valid"]:
ForcedInvalid(llm_result, critical_issues) ==
    critical_issues # <<>> /\ llm_result.valid

Combined(valid, confidence, issues, error, llm_result, auto_checks) ==
    [valid |-> valid, confidence |-> confidence, issues |-> issues,
     details |-> [error |-> error, llm_validation |-> llm_result,
                  automated_checks |-> auto_checks]]

\* Mutant: the automated issues are put before the model's.
CombineResultsAutomatedFirst(llm_result, auto_checks) ==
    LET critical_issues == SelectSeq(auto_checks.automated_issues, IsCritical)
        issues == auto_checks.automated_issues \o llm_result.issues
    IN  IF llm_result.issues_kind # "list"
        THEN Raised("AttributeError", Combined(TRUE, 0, <<>>, "", llm_result, auto_checks))
        ELSE IF ForcedInvalid(llm_result, critical_issues)
        THEN IF llm_result.confidence = NotANumber
             THEN Raised("TypeError", Combined(TRUE, 0, <<>>, "", llm_result, auto_checks))
             ELSE Ok(Combined(FALSE, Min(llm_result.confidence, ClampConfidence),
                              issues, "", llm_result, auto_checks))
        ELSE Ok(Combined(llm_result.valid, llm_result.confidence,
                         issues, "", llm_result, auto_checks))

CombineResults(llm_result, auto_checks) ==
    LET critical_issues == SelectSeq(auto_checks.automated_issues, IsCritical)
        issues == llm_result.issues \o auto_checks.automated_issues
    IN  IF llm_result.issues_kind # "list"
        THEN Raised("AttributeError", Combined(TRUE, 0, <<>>, "", llm_result, auto_checks))
        ELSE IF ForcedInvalid(llm_result, critical_issues)
        THEN IF llm_result.confidence = NotANumber
             THEN Raised("TypeError", Combined(TRUE, 0, <<>>, "", llm_result, auto_checks))
             ELSE Ok(Combined(FALSE, Min(llm_result.confidence, ClampConfidence),
                              issues, "", llm_result, auto_checks))
        ELSE Ok(Combined(llm_result.valid, llm_result.confidence,
                         issues, "", llm_result, auto_checks))

\* Mutant: the error is answered with another confidence.
FailOpenLowConfidence(message) ==
    Combined(TRUE, 0, <<ValidationErrorIssue(message)>>, message,
             NoLlmResult, NoAutoChecks)

\* except Exception as e: the default returned on any error
FailOpen(message) ==
    Combined(TRUE, FailOpenConfidence, <<ValidationErrorIssue(message)>>, message,
             NoLlmResult, NoAutoChecks)

\* execute(answer, documents, query); llm is what call_llm does.
ValidatorExecute(answer, documents, llm) ==
    IF llm.kind = "call_failed" THEN FailOpen("LLM call failed")
    ELSE LET parsed == ParseValidation(llm)
             auto_checks == RunAutomatedChecks(answer, documents)
             final == CombineResults(parsed.value, auto_checks)
         IN  IF parsed.raised THEN FailOpen(parsed.message)
             ELSE IF final.raised THEN FailOpen(final.message)
             \* the log line formats the confidence with :.2f
             ELSE IF final.value.confidence = NotANumber THEN FailOpen("ValueError")
             ELSE final.value

NoValidation == Combined(TRUE, 0, <<>>, "", NoLlmResult, NoAutoChecks)
NoValidatorArgs == [answer |-> <<>>, documents |-> <<>>]

ValidatorIdle ==
    /\ vArgs = NoValidatorArgs
    /\ vLlm = CallFailed
    /\ vPc = "idle"
    /\ vResult = NoValidation

\* ====================================================== LanguageDetector
\* A text is a sequence of characters, each given by its code point.
\* The keys of script_counts, in the order of the dictionary.
script_names == <<"devanagari", "bengali", "tamil", "telugu", "gujarati",
                  "kannada", "malayalam", "gurmukhi", "latin", "arabic">>

\* The branch of the if / elif chain the character takes; "none" where no
\* branch does.
ScriptOf(code_point) ==
    CASE 2304 <= code_point /\ code_point <= 2431 -> "devanagari"
      [] 2432 <= code_point /\ code_point <= 2559 -> "bengali"
      [] 2944 <= code_point /\ code_point <= 3071 -> "tamil"
      [] 3072 <= code_point /\ code_point <= 3199 -> "telugu"
      [] 2688 <= code_point /\ code_point <= 2815 -> "gujarati"
      [] 3200 <= code_point /\ code_point <= 3327 -> "kannada"
      [] 3328 <= code_point /\ code_point <= 3455 -> "malayalam"
      [] 2560 <= code_point /\ code_point <= 2687 -> "gurmukhi"
      [] 1536 <= code_point /\ code_point <= 1791 -> "arabic"
      [] (65 <= code_point /\ code_point <= 90)
            \/ (97 <= code_point /\ code_point <= 122) -> "latin"
      [] OTHER -> "none"

script_to_lang(script_name) ==
    CASE script_name = "devanagari" -> "hi"
      [] script_name = "bengali" -> "bn"
      [] script_name = "tamil" -> "ta"
      [] script_name = "telugu" -> "te"
      [] script_name = "gujarati" -> "gu"
      [] script_name = "kannada" -> "kn"
      [] script_name = "malayalam" -> "ml"
      [] script_name = "gurmukhi" -> "pa"
      [] script_name = "arabic" -> "ur"
      [] script_name = "latin" -> "en"

\* script_counts[script] after the loop over the characters
ScriptCount(text, script) ==
    Cardinality({i \in DOMAIN text : ScriptOf(text[i]) = script})

\* 1.0 of a detection confidence: a multiple of 100 and of every character
\* count up to 6, so that char_count / total_chars is a whole number.
DetectOne == 300

Detection(lang_code, confidence) == [lang |-> lang_code, confidence |-> confidence]

\* max(script_counts.items(), key=lambda x: x[1]): the first key of the
\* highest count.
DominantScript(text) ==
    script_names[CHOOSE i \in DOMAIN script_names :
        /\ \A j \in DOMAIN script_names :
                ScriptCount(text, script_names[j]) <= ScriptCount(text, script_names[i])
        /\ \A j \in 1..(i - 1) :
                ScriptCount(text, script_names[j]) < ScriptCount(text, script_names[i])]

\* sum(script_counts.values())
TotalChars(text) == Cardinality({i \in DOMAIN text : ScriptOf(text[i]) # "none"})

\* Mutant: the dominant count is divided by the length of the text.
DetectByScriptOverLength(text, fallback) ==
    IF TotalChars(text) = 0 THEN Detection(fallback, 0)
    ELSE Detection(script_to_lang(DominantScript(text)),
                   (ScriptCount(text, DominantScript(text)) * DetectOne) \div Len(text))

\* _detect_by_script(text, fallback)
DetectByScript(text, fallback) ==
    LET total_chars == TotalChars(text)
        script_name == DominantScript(text)
        char_count == ScriptCount(text, script_name)
    IN  IF total_chars = 0 THEN Detection(fallback, 0)
        ELSE Detection(script_to_lang(script_name),
                       (char_count * DetectOne) \div total_chars)

\* str.isspace() of a character: space, tab, newline.
IsSpace(code_point) == code_point \in {9, 10, 32}
\* text.strip()
StripText(text) ==
    LET keep == {i \in DOMAIN text : ~IsSpace(text[i])}
    IN  IF keep = {} THEN <<>>
        ELSE SubSeq(text, CHOOSE i \in keep : \A j \in keep : i <= j,
                          CHOOSE i \in keep : \A j \in keep : j <= i)

SAMPLE_CHARS == 1000

\* What detect_langs does with the sample: it returns its results, best
\* first, returns none, or raises.
LangdetectResults(results) == [kind |-> "results", results |-> results]
LangdetectRaises == [kind |-> "raises", results |-> <<>>]

\* detect(text, fallback)
Detect(text, fallback, langdetect) ==
    IF text = <<>> \/ StripText(text) = <<>> THEN Detection(fallback, 0)
    ELSE LET sample == StripText(Take(text, SAMPLE_CHARS))
         IN  IF sample = <<>> THEN Detection(fallback, 0)
             ELSE IF langdetect.kind = "raises" THEN DetectByScript(text, fallback)
             ELSE IF langdetect.results # <<>>
             THEN Detection(langdetect.results[1][1], langdetect.results[1][2])
             ELSE Detection(fallback, 0)

NoDetection == Detection("", 0)
NoDetectorArgs == [text |-> <<>>, fallback |-> "", langdetect |-> LangdetectRaises]

DetectorIdle ==
    /\ dArgs = NoDetectorArgs
    /\ dPc = "idle"
    /\ dResult = NoDetection

\* ======================================================= RAGOrchestrator
\* ---- citations of a generated text: the id of each marker, whitespace
\* trimmed, with the place of the marker and its literal text.
RECURSIVE RStrip(_)
RStrip(syms) ==
    IF syms # <<>> /\ syms[Len(syms)] = " "
    THEN RStrip(SubSeq(syms, 1, Len(syms) - 1)) ELSE syms

ExtractCitations(text) ==
    LET idx == SelectSeq([i \in DOMAIN text |-> i],
                         LAMBDA i : text[i].kind = "cite" /\ LStrip(text[i].raw) # <<>>)
    IN  [k \in DOMAIN idx |->
            [doc_id |-> RStrip(LStrip(text[idx[k]].raw)), position |-> idx[k],
             text |-> Symbols(text[idx[k]])]]

\* ---- RouterAgent
valid_types == <<"SIMPLE_QA", "COMPARISON", "SUMMARIZATION", "ANALYSIS",
                 "EXTRACTION", "MULTI_HOP">>

\* A response of the text-generation call is a sequence of pieces: " " is
\* whitespace, the others are words, among them the category names as the
\* model may write them.
\* str.upper() of a piece
Upper(piece) ==
    CASE piece \in {"simple_qa", "Simple_QA"} -> "SIMPLE_QA"
      [] piece \in {"comparison", "Comparison"} -> "COMPARISON"
      [] piece = "summarization" -> "SUMMARIZATION"
      [] piece = "analysis" -> "ANALYSIS"
      [] piece = "extraction" -> "EXTRACTION"
      [] piece = "multi_hop" -> "MULTI_HOP"
      [] piece = "unknown" -> "UNKNOWN"
      [] OTHER -> piece

\* response.strip().upper()
Normalize(response) ==
    LET stripped == RStrip(LStrip(response))
    IN  [i \in DOMAIN stripped |-> Upper(stripped[i])]

\* query_type in self.valid_types
IsValidType(query_type) == \E i \in DOMAIN valid_types : query_type = <<valid_types[i]>>

\* The categories for which `valid_type in query_type` holds, in the order
\* of valid_types.
Matches(query_type) ==
    SelectSeq(valid_types, LAMBDA t : \E i \in DOMAIN query_type : query_type[i] = t)

\* Mutant: the response is compared as written, in whatever case.
ClassifyCaseSensitive(response) ==
    LET query_type == RStrip(LStrip(response))
    IN  IF IsValidType(query_type) THEN query_type[1]
        ELSE IF Matches(query_type) # <<>> THEN Head(Matches(query_type))
        ELSE "SIMPLE_QA"

\* The query type execute settles on.
Classify(response) ==
    LET query_type == Normalize(response)
    IN  IF IsValidType(query_type) THEN query_type[1]
        ELSE IF Matches(query_type) # <<>> THEN Head(Matches(query_type))
        ELSE "SIMPLE_QA"

InvalidTypeWarning(query_type) ==
    [level |-> "WARNING", event |-> "Invalid query type, defaulting to SIMPLE_QA",
     arg |-> query_type]

\* self.logger.warning(...) of the for-else branch
RouterWarnings(response) ==
    LET query_type == Normalize(response)
    IN  IF ~IsValidType(query_type) /\ Matches(query_type) = <<>>
        THEN <<InvalidTypeWarning(query_type)>> ELSE <<>>

RouterConfidence == 90

\* execute(query); response is what call_llm returned.
RouterExecute(response) ==
    [query_type |-> Classify(response), confidence |-> RouterConfidence]

RouterCallFailed == [kind |-> "call_failed", text |-> <<>>]
RouterResponse(text) == [kind |-> "response", text |-> text]
NoRouting == [query_type |-> "", confidence |-> 0]

RouterIdle ==
    /\ rtLlm = RouterCallFailed
    /\ rtPc = "idle"
    /\ rtResult = NoRouting
    /\ rtWarnings = <<>>

\* ---- BaseAgent: the counters call_llm keeps for each agent
Agents == {"router", "planner", "retriever", "analyzer", "synthesizer", "validator"}
\* What one text-generation call of the agent costs; the retriever makes none.
CallCost(agent) ==
    CASE agent = "router" -> 1
      [] agent = "planner" -> 2
      [] agent = "analyzer" -> 4
      [] agent = "synthesizer" -> 8
      [] agent = "validator" -> 16
      [] OTHER -> 0

NoStats == [a \in Agents |-> [calls |-> 0, total_cost |-> 0]]

\* A call_llm of the agent that returned: one more call, its cost added.
Charge(st, agent) ==
    [st EXCEPT ![agent] = [calls |-> @.calls + 1,
                           total_cost |-> @.total_cost + CallCost(agent)]]

\* ---- AnalyzerAgent
NoDocumentsAnalysis == <<[kind |-> "No documents provided for analysis.", raw |-> <<>>]>>
\* 1.0 of an analyzer confidence: a multiple of 100 and of every document
\* count up to 6, so that the mean score's share is a whole number.
AnalysisOne == 30000
\* A value in hundredths, in the analyzer's unit.
Fine(c) == c * (AnalysisOne \div ScoreOne)
BaseConfidence == 50
CitationStep == 10
CitationCap == 30
RelevanceWeight == 20
UncertaintyPenalty == 10

\* sum(doc.get('score', 0) for doc in documents)
RECURSIVE SumScores(_)
SumScores(docs) == IF docs = <<>> THEN 0 ELSE Head(docs).score + SumScores(Tail(docs))

\* The six phrases of _estimate_confidence.
analyzer_uncertainty_phrases ==
    <<"not found in provided documents", "information not available", "unclear",
      "uncertain", "may be", "possibly">>

\* A hedging phrase as it stands in a generated text, in lower or upper case.
UpperCase(phrase) ==
    CASE phrase = "not found in provided documents" -> "NOT FOUND IN PROVIDED DOCUMENTS"
      [] phrase = "information not available" -> "INFORMATION NOT AVAILABLE"
      [] phrase = "unclear" -> "UNCLEAR"
      [] phrase = "uncertain" -> "UNCERTAIN"
      [] phrase = "may be" -> "MAY BE"
      [] phrase = "possibly" -> "POSSIBLY"
      [] OTHER -> phrase
HedgeTok(literal) == [kind |-> "hedge", raw |-> <<literal>>]

\* str.lower() of a literal
Lower(literal) ==
    IF \E i \in DOMAIN analyzer_uncertainty_phrases :
            UpperCase(analyzer_uncertainty_phrases[i]) = literal
    THEN analyzer_uncertainty_phrases[
            CHOOSE i \in DOMAIN analyzer_uncertainty_phrases :
                UpperCase(analyzer_uncertainty_phrases[i]) = literal]
    ELSE literal

\* Mutant: the phrase is looked for in the text as written.
HedgeInCaseSensitive(phrase, analysis) ==
    \/ PhraseIn(phrase, analysis)
    \/ \E i \in DOMAIN analysis :
            analysis[i].kind = "hedge" /\ analysis[i].raw[1] = phrase

\* phrase.lower() in analysis.lower()
HedgeIn(phrase, analysis) ==
    \/ PhraseIn(phrase, analysis)
    \/ \E i \in DOMAIN analysis :
            analysis[i].kind = "hedge" /\ Lower(analysis[i].raw[1]) = Lower(phrase)

\* In the analyzer's unit; the mean's share, sum * 0.2 / len, is whole for
\* up to 6 documents.
EstimateConfidence(analysis, citations, documents) ==
    LET bonus == IF Len(citations) > 0
                 THEN Fine(Min(CitationCap, Len(citations) * CitationStep)) ELSE 0
        relevance == IF documents # <<>>
                     THEN (SumScores(documents) * Fine(RelevanceWeight))
                            \div (ScoreOne * Len(documents))
                     ELSE 0
        hedges == Len(SelectSeq(analyzer_uncertainty_phrases,
                                LAMBDA ph : HedgeIn(ph, analysis)))
    IN  Max(0, Min(AnalysisOne,
            Fine(BaseConfidence) + bonus + relevance - hedges * Fine(UncertaintyPenalty)))

\* Mutant: an empty document list is analyzed like any other.
AnalyzerExecuteNoShortCircuit(documents, analysis) ==
    LET citations == ExtractCitations(analysis)
    IN  [analysis |-> analysis,
         sources_used |-> {citations[i].doc_id : i \in DOMAIN citations},
         confidence |-> EstimateConfidence(analysis, citations, documents),
         citations_count |-> Len(citations)]

\* execute(query, documents, language, query_type); analysis is the text the
\* generation call returns when documents is not empty.
AnalyzerExecute(documents, analysis) ==
    IF documents = <<>>
    THEN [analysis |-> NoDocumentsAnalysis, sources_used |-> {},
          confidence |-> 0, citations_count |-> 0]
    ELSE LET citations == ExtractCitations(analysis)
         IN  [analysis |-> analysis,
              sources_used |-> {citations[i].doc_id : i \in DOMAIN citations},
              confidence |-> EstimateConfidence(analysis, citations, documents),
              citations_count |-> Len(citations)]

\* ---- SynthesizerAgent
DirectBelow == 30
DetailedAbove == 100

\* Mutant: an answer of exactly 30 words is still "direct".
DetermineStructureInclusive(answer, query_type) ==
    LET word_count == WordCount(answer)
    IN  IF word_count <= DirectBelow THEN "direct"
        ELSE IF query_type = "COMPARISON" THEN "comparison"
        ELSE IF query_type = "SUMMARIZATION" THEN "summary"
        ELSE IF word_count > DetailedAbove THEN "detailed"
        ELSE "standard"

\* _determine_structure(answer, query_type)
DetermineStructure(answer, query_type) ==
    LET word_count == WordCount(answer)
    IN  IF word_count < DirectBelow THEN "direct"
        ELSE IF query_type = "COMPARISON" THEN "comparison"
        ELSE IF query_type = "SUMMARIZATION" THEN "summary"
        ELSE IF word_count > DetailedAbove THEN "detailed"
        ELSE "standard"

\* execute(query, analysis, language, query_type); final_answer is the text
\* the generation call returned.
SynthesizerExecute(final_answer, query_type) ==
    [answer |-> final_answer, citations |-> ExtractCitations(final_answer),
     structure |-> DetermineStructure(final_answer, query_type),
     query_type |-> query_type]

NoSynthesis == [answer |-> <<>>, citations |-> <<>>, structure |-> "", query_type |-> ""]
NoSynthesizerArgs == [final_answer |-> <<>>, query_type |-> ""]

SynthesizerIdle ==
    /\ sArgs = NoSynthesizerArgs
    /\ sPc = "idle"
    /\ sResult = NoSynthesis

\* ---- the workflow graph
EntryPoint == "detect_language"
END == "END"

\* Mutant: the edge out of retrieve leads to synthesize.
NextNodeSkipsAnalyze(node) ==
    CASE node = "detect_language" -> "route"
      [] node = "route" -> "plan"
      [] node = "plan" -> "retrieve"
      [] node = "retrieve" -> "synthesize"
      [] node = "analyze" -> "synthesize"
      [] node = "synthesize" -> "validate"
      [] node = "validate" -> END

\* add_edge(a, b)
NextNode(node) ==
    CASE node = "detect_language" -> "route"
      [] node = "route" -> "plan"
      [] node = "plan" -> "retrieve"
      [] node = "retrieve" -> "analyze"
      [] node = "analyze" -> "synthesize"
      [] node = "synthesize" -> "validate"
      [] node = "validate" -> END

\* The node after `node` once it has returned; after the last, the response
\* is built.
After(node) == IF NextNode(node) = END THEN "respond" ELSE NextNode(node)

NUM_QUERIES == 3
PIPELINE_TOP_K == 5

InitialState(query, user_id, filters) ==
    [query |-> query, user_id |-> user_id,
     filters |-> IF filters # NoFilters THEN filters ELSE {<<"user_id", user_id>>},
     language |-> "en", language_confidence |-> 0,
     query_type |-> "",
     search_queries |-> <<>>,
     documents |-> <<>>, total_retrieved |-> 0,
     analysis |-> <<>>, sources_used |-> {}, analysis_confidence |-> 0,
     answer |-> <<>>, citations |-> <<>>,
     validation_valid |-> TRUE, validation_confidence |-> 0,
     validation_issues |-> <<>>]

\* Mutant: the synthesizer's citations are also recorded as the sources used.
SynthesizeUpdateTouchesSources(st, result) ==
    [st EXCEPT !.answer = result.answer,
               !.citations = result.citations,
               !.sources_used = {result.citations[i].doc_id : i \in DOMAIN result.citations}]

\* _synthesize_node: the assignments to the state
SynthesizeUpdate(st, result) ==
    [st EXCEPT !.answer = result.answer, !.citations = result.citations]

AgentError(agent_name, message) == [agent_name |-> agent_name, message |-> message]
\* str(e) of a stage's AgentError: it names the agent and the cause.
ErrorText(e) == <<e.agent_name, e.message>>
NoRaise == <<>>

\* Mutant: the failure is reported and the workflow goes on to the next node.
OnNodeFailureContinue(node, e) ==
    [pc |-> After(node), raised |-> <<AgentError("orchestrator", ErrorText(e))>>]

\* Mutant: the node that raised is invoked again.
OnNodeFailureRetries(node, e) ==
    [pc |-> node, raised |-> <<>>]

\* A node raises e: workflow.invoke propagates it and process_query's handler
\* raises AgentError("orchestrator", str(e)).
OnNodeFailure(node, e) ==
    [pc |-> "raised", raised |-> <<AgentError("orchestrator", ErrorText(e))>>]

LANGUAGE_WEIGHT == 20
ANALYSIS_WEIGHT == 40
VALIDATION_WEIGHT == 40

\* 1.0 of an overall confidence: the weights are hundredths, the confidences
\* are in the analyzer's unit.
OverallOne == ScoreOne * AnalysisOne

\* Mutant: a zero analysis confidence is left out and the other weights
\* rescaled.
CalculateOverallConfidenceReweighted(st) ==
    IF st.analysis_confidence = 0
    THEN (ScoreOne \div 2) * (Fine(st.language_confidence)
                              + Fine(st.validation_confidence))
    ELSE LANGUAGE_WEIGHT * Fine(st.language_confidence)
         + ANALYSIS_WEIGHT * st.analysis_confidence
         + VALIDATION_WEIGHT * Fine(st.validation_confidence)

CalculateOverallConfidence(st) ==
    LANGUAGE_WEIGHT * Fine(st.language_confidence)
    + ANALYSIS_WEIGHT * st.analysis_confidence
    + VALIDATION_WEIGHT * Fine(st.validation_confidence)

\* A string built from a passage: its first `chars` characters, then `suffix`.
PREVIEW_CHARS == 200
Ellipsis == "..."
ELLIPSIS_CHARS == 3
\* doc["text"][:200] + "..."
Preview(text) ==
    [of |-> text, chars |-> Min(PREVIEW_CHARS, TextLength(text)), suffix |-> Ellipsis]
\* len() of such a string
StrLen(str) == str.chars + (IF str.suffix = Ellipsis THEN ELLIPSIS_CHARS ELSE 0)

\* Mutant: the validator's cost is left out of the sum.
CalculateTotalCostNoValidator(agent_stats) ==
    agent_stats["router"].total_cost + agent_stats["planner"].total_cost
    + agent_stats["analyzer"].total_cost + agent_stats["synthesizer"].total_cost

\* _calculate_total_cost: the sum over router, planner, analyzer, synthesizer
\* and validator of agent.stats["total_cost"].
CalculateTotalCost(agent_stats) ==
    agent_stats["router"].total_cost + agent_stats["planner"].total_cost
    + agent_stats["analyzer"].total_cost + agent_stats["synthesizer"].total_cost
    + agent_stats["validator"].total_cost

BuildResponse(final_state, agent_stats) ==
    [answer |-> final_state.answer,
     citations |-> final_state.citations,
     confidence |-> CalculateOverallConfidence(final_state),
     language |-> final_state.language,
     query_type |-> final_state.query_type,
     sources |-> [i \in DOMAIN final_state.documents |->
                    [id |-> final_state.documents[i].id,
                     text |-> Preview(final_state.documents[i].text),
                     score |-> final_state.documents[i].score]],
     metadata |-> [total_cost |-> CalculateTotalCost(agent_stats),
                   documents_analyzed |-> Len(final_state.documents),
                   validation_valid |-> final_state.validation_valid,
                   validation_issues |-> final_state.validation_issues]]

NoResponse ==
    [answer |-> <<>>, citations |-> <<>>, confidence |-> 0, language |-> "",
     query_type |-> "", sources |-> <<>>,
     metadata |-> [total_cost |-> 0,
                   documents_analyzed |-> 0, validation_valid |-> TRUE,
                   validation_issues |-> <<>>]]

NoAnalysis == [analysis |-> <<>>, sources_used |-> {}, confidence |-> 0,
               citations_count |-> 0]
NoAnalyzerArgs == [documents |-> <<>>, analysis |-> <<>>]

AnalyzerIdle ==
    /\ aArgs = NoAnalyzerArgs
    /\ aPc = "idle"
    /\ aResult = NoAnalysis

PipelineIdle ==
    /\ pc = "idle"
    /\ state = InitialState("", "", NoFilters)
    /\ nodesRun = <<>>
    /\ finalResult = NoResponse
    /\ raised = NoRaise
    /\ emptyAnswers = {}

\* ---- what the collaborators may answer during one query
UserIds == {"u1", "u2"}
FilterArgs == {NoFilters, {<<"language", "en">>}}
Detections == {<<"en", 99>>, <<"hi", 80>>}
RouterResponses ==
    {RouterResponse(<<"comparison", " ">>),
     RouterResponse(<<"ANALYSIS", " ", "or", " ", "SUMMARIZATION">>),
     RouterResponse(<<"unknown">>)}
Plans == {<<"q1", "q2", "q1">>, <<"q2", "q2", "q2">>}
EmptyCorpus == [q \in QueryTexts |-> [d \in DocIds |-> 50]]
TwoDocCorpus ==
    [q \in QueryTexts |->
        [d \in DocIds |-> IF d = "doc3" THEN 50
                          ELSE IF (q = "q1") = (d = "doc1") THEN 97 ELSE 80]]
ThreeDocCorpus ==
    [q \in QueryTexts |->
        [d \in DocIds |-> IF q = "q1" /\ d = "doc1" THEN 50
                          ELSE IF d = "doc3" THEN 97 ELSE 80]]
\* Seven documents, six of them of one owner, every one matching both queries.
LargeCorpus ==
    [q \in QueryTexts |->
        [d \in SeqRange(CorpusOrder) |->
            IF d \in {"doc1", "doc4"} THEN 97 ELSE IF d = "doc3" THEN 71 ELSE 80]]
PipelineStores == {EmptyCorpus, TwoDocCorpus, ThreeDocCorpus, LargeCorpus}
GeneratedTexts ==
    {<<WordTok, WordTok, CiteDoc1>>, <<UnclearTok, CiteDoc999>>,
     <<WordTok, CiteDoc1Padded, CiteDoc1>>, <<WordTok>>}
ValidatorOutcomes ==
    {CallFailed} \cup NonObjectJson
    \cup {r \in JsonObjects :
            \/ r.valid = "true" /\ r.confidence = 90 /\ r.issues_kind = "list"
                                /\ r.issues = <<>>
            \/ r.valid = "false" /\ r.confidence = 40 /\ r.issues = <<ModelIssue>>
            \/ r.valid = "absent" /\ r.confidence = NotANumber /\ r.issues_kind = "absent"
            \/ r.valid = "true" /\ r.confidence = 40 /\ r.issues_kind = "other"
            \/ r.valid = "true" /\ r.confidence = 150 /\ r.issues_kind = "list"
                                /\ r.issues = <<>>}
    \cup {r \in PlainTexts : r.has_valid_word = r.has_false_word}

InitPipeline ==
    /\ store \in PipelineStores
    /\ rArgs = [search_queries |-> <<>>, filters |-> NoFilters, top_k |-> 0,
                rerank |-> TRUE]
    /\ rPc = "idle"
    /\ rLocals = NoLocals
    /\ rResult = NoResult
    /\ rError = NoError
    /\ ValidatorIdle
    /\ AnalyzerIdle
    /\ RouterIdle
    /\ SynthesizerIdle
    /\ DetectorIdle
    /\ stats = NoStats
    /\ PipelineIdle
    /\ pending = 1
    /\ statsAtCall = NoStats

\* process_query(query, user_id, filters): the state is initialised and the
\* workflow invoked at its entry point.  The agents, and their counters, are
\* those of the orchestrator: a later call finds them as the earlier left them.
ProcessQuery ==
    /\ pc \in {"idle", "returned", "raised"}
    /\ pending > 0
    /\ pending' = pending - 1
    /\ statsAtCall' = stats
    /\ \E user_id \in UserIds, filters \in FilterArgs :
          state' = InitialState("query", user_id, filters)
    /\ pc' = EntryPoint
    /\ nodesRun' = <<>>
    /\ finalResult' = NoResponse
    /\ raised' = NoRaise
    /\ rArgs' = [search_queries |-> <<>>, filters |-> NoFilters, top_k |-> 0,
                 rerank |-> TRUE]
    /\ rPc' = "idle"
    /\ rLocals' = NoLocals
    /\ rResult' = NoResult
    /\ rError' = NoError
    /\ vArgs' = NoValidatorArgs
    /\ vLlm' = CallFailed
    /\ vPc' = "idle"
    /\ vResult' = NoValidation
    /\ aArgs' = NoAnalyzerArgs
    /\ aPc' = "idle"
    /\ aResult' = NoAnalysis
    /\ rtLlm' = RouterCallFailed
    /\ rtPc' = "idle"
    /\ rtResult' = NoRouting
    /\ rtWarnings' = <<>>
    /\ sArgs' = NoSynthesizerArgs
    /\ sPc' = "idle"
    /\ sResult' = NoSynthesis
    /\ UNCHANGED <<store, stats, emptyAnswers, detectorVars>>

NodeFails(node, e) ==
    /\ pc' = OnNodeFailure(node, e).pc
    /\ raised' = raised \o OnNodeFailure(node, e).raised

NodeReturns(node) ==
    /\ pc' = After(node)
    /\ raised' = raised

DetectLanguageNode ==
    /\ pc = "detect_language"
    /\ nodesRun' = Append(nodesRun, "detect_language")
    /\ \E d \in Detections :
          state' = [state EXCEPT !.language = d[1], !.language_confidence = d[2]]
    /\ NodeReturns("detect_language")
    /\ UNCHANGED <<finalResult, pending, statsAtCall, emptyAnswers, stats,
                   retrieverVars, validatorVars, analyzerVars, routerVars,
                   synthesizerVars, detectorVars>>

RouteNode ==
    /\ pc = "route"
    /\ nodesRun' = Append(nodesRun, "route")
    /\ \/ /\ rtLlm' \in RouterResponses
          /\ rtResult' = RouterExecute(rtLlm'.text)
          /\ rtWarnings' = rtWarnings \o RouterWarnings(rtLlm'.text)
          /\ rtPc' = "done"
          /\ state' = [state EXCEPT !.query_type = rtResult'.query_type]
          /\ stats' = Charge(stats, "router")
          /\ NodeReturns("route")
       \/ /\ rtLlm' = RouterCallFailed
          /\ rtPc' = "error"
          /\ NodeFails("route", AgentError("router", "LLM call failed"))
          /\ UNCHANGED <<state, stats, rtResult, rtWarnings>>
    /\ UNCHANGED <<finalResult, pending, statsAtCall, emptyAnswers, retrieverVars,
                   validatorVars, analyzerVars, synthesizerVars, detectorVars>>

PlanNode ==
    /\ pc = "plan"
    /\ nodesRun' = Append(nodesRun, "plan")
    /\ \/ /\ \E plan \in Plans :
                /\ Len(plan) = NUM_QUERIES
                /\ state' = [state EXCEPT !.search_queries = plan]
          /\ stats' = Charge(stats, "planner")
          /\ NodeReturns("plan")
       \/ /\ NodeFails("plan", AgentError("planner", "LLM call failed"))
          /\ UNCHANGED <<state, stats>>
    /\ UNCHANGED <<finalResult, pending, statsAtCall, emptyAnswers, retrieverVars,
                   validatorVars, analyzerVars, routerVars, synthesizerVars,
                   detectorVars>>

RetrieveNode ==
    /\ pc = "retrieve"
    /\ nodesRun' = Append(nodesRun, "retrieve")
    /\ rArgs' = [search_queries |-> state.search_queries, filters |-> state.filters,
                 top_k |-> PIPELINE_TOP_K, rerank |-> TRUE]
    /\ \/ /\ rError' = AgentError("retriever", "search failed")
          /\ rPc' = "error"
          /\ NodeFails("retrieve", rError')
          /\ UNCHANGED <<state, rLocals, rResult>>
       \/ /\ rLocals' = RetrieverLocals(store, rArgs'.search_queries, rArgs'.filters)
          /\ rResult' = RetrieverExecute(store, rArgs'.search_queries, rArgs'.filters,
                                         rArgs'.top_k, rArgs'.rerank)
          /\ rPc' = "done"
          /\ state' = [state EXCEPT !.documents = rResult'.documents,
                                    !.total_retrieved = rResult'.total_retrieved]
          /\ NodeReturns("retrieve")
          /\ UNCHANGED rError
    /\ UNCHANGED <<finalResult, pending, statsAtCall, emptyAnswers, stats, store,
                   validatorVars, analyzerVars, routerVars, synthesizerVars,
                   detectorVars>>

AnalyzeNode ==
    /\ pc = "analyze"
    /\ nodesRun' = Append(nodesRun, "analyze")
    /\ \E text \in IF state.documents = <<>> THEN {<<>>} ELSE GeneratedTexts :
          aArgs' = [documents |-> state.documents, analysis |-> text]
    /\ \/ /\ aResult' = AnalyzerExecute(aArgs'.documents, aArgs'.analysis)
          /\ aPc' = "done"
          /\ stats' = IF aArgs'.documents = <<>> THEN stats
                      ELSE Charge(stats, "analyzer")
          /\ state' = [state EXCEPT
                           !.analysis = aResult'.analysis,
                           !.sources_used = aResult'.sources_used,
                           !.analysis_confidence = aResult'.confidence]
          /\ NodeReturns("analyze")
       \/ /\ state.documents # <<>>
          /\ aPc' = "error"
          /\ NodeFails("analyze", AgentError("analyzer", "LLM call failed"))
          /\ UNCHANGED <<state, stats, aResult>>
    /\ UNCHANGED <<finalResult, pending, statsAtCall, emptyAnswers, retrieverVars,
                   validatorVars, routerVars, synthesizerVars, detectorVars>>

SynthesizeNode ==
    /\ pc = "synthesize"
    /\ nodesRun' = Append(nodesRun, "synthesize")
    /\ \E text \in GeneratedTexts :
          sArgs' = [final_answer |-> text, query_type |-> state.query_type]
    /\ \/ /\ sResult' = SynthesizerExecute(sArgs'.final_answer, sArgs'.query_type)
          /\ sPc' = "done"
          /\ state' = SynthesizeUpdate(state, sResult')
          /\ stats' = Charge(stats, "synthesizer")
          /\ NodeReturns("synthesize")
       \/ /\ sPc' = "error"
          /\ NodeFails("synthesize", AgentError("synthesizer", "LLM call failed"))
          /\ UNCHANGED <<state, stats, sResult>>
    /\ UNCHANGED <<finalResult, pending, statsAtCall, emptyAnswers, retrieverVars,
                   validatorVars, analyzerVars, routerVars, detectorVars>>

ValidateNode ==
    /\ pc = "validate"
    /\ nodesRun' = Append(nodesRun, "validate")
    /\ vArgs' = [answer |-> state.answer, documents |-> state.documents]
    /\ vLlm' \in ValidatorOutcomes
    /\ vResult' = ValidatorExecute(vArgs'.answer, vArgs'.documents, vLlm')
    /\ vPc' = "done"
    /\ state' = [state EXCEPT !.validation_valid = vResult'.valid,
                              !.validation_confidence = vResult'.confidence,
                              !.validation_issues = vResult'.issues]
    /\ stats' = IF vLlm'.kind = "call_failed" THEN stats
                ELSE Charge(stats, "validator")
    /\ NodeReturns("validate")
    /\ UNCHANGED <<finalResult, pending, statsAtCall, emptyAnswers, retrieverVars,
                   analyzerVars, routerVars, synthesizerVars, detectorVars>>

\* The workflow has returned final_state: the response is built and returned.
Respond ==
    /\ pc = "respond"
    /\ finalResult' = BuildResponse(state, stats)
    /\ emptyAnswers' = IF state.documents = <<>>
                       THEN emptyAnswers \cup {finalResult'.answer}
                       ELSE emptyAnswers
    /\ pc' = "returned"
    /\ UNCHANGED <<state, nodesRun, raised, pending, statsAtCall, stats,
                   retrieverVars, validatorVars, analyzerVars, routerVars,
                   synthesizerVars, detectorVars>>

Next ==
    \/ ProcessQuery
    \/ DetectLanguageNode
    \/ RouteNode
    \/ PlanNode
    \/ RetrieveNode
    \/ AnalyzeNode
    \/ SynthesizeNode
    \/ ValidateNode
    \/ Respond

Init == InitPipeline

\* ---- a client making several calls on one orchestrator
\* Most process_query calls made on the orchestrator.
MaxCalls == 2

InitSession ==
    /\ store \in {EmptyCorpus, TwoDocCorpus}
    /\ rArgs = [search_queries |-> <<>>, filters |-> NoFilters, top_k |-> 0,
                rerank |-> TRUE]
    /\ rPc = "idle"
    /\ rLocals = NoLocals
    /\ rResult = NoResult
    /\ rError = NoError
    /\ ValidatorIdle
    /\ AnalyzerIdle
    /\ RouterIdle
    /\ SynthesizerIdle
    /\ DetectorIdle
    /\ stats = NoStats
    /\ PipelineIdle
    /\ pending = MaxCalls
    /\ statsAtCall = NoStats

SpecSession == InitSession /\ [][Next]_vars

Spec == Init /\ [][Next]_vars

\* workflow.invoke and process_query run synchronously: once a call is under
\* way, the node at hand runs as soon as the external calls of the one before
\* it have returned or failed, and the response is built after the last.
\* Whether the client makes a call at all is left open.
InCall ==
    \/ DetectLanguageNode
    \/ RouteNode
    \/ PlanNode
    \/ RetrieveNode
    \/ AnalyzeNode
    \/ SynthesizeNode
    \/ ValidateNode
    \/ Respond

FairSpec == Init /\ [][Next]_vars /\ WF_vars(InCall)

\* ------------------------------------------- specification of the validator
Doc(id, score) ==
    [id |-> id, text |-> TextOf(id), score |-> score, source_query |-> "q1",
     query_index |-> 1, rerank_score |-> NoRerankScore]
DocumentLists == {<<>>, <<Doc("doc1", 95)>>, <<Doc("doc1", 95), Doc("doc2", 85)>>}

RetrieverIdle ==
    /\ store = [q \in QueryTexts |-> [d \in DocIds |-> 50]]
    /\ rArgs = [search_queries |-> <<>>, filters |-> NoFilters, top_k |-> 0,
                rerank |-> TRUE]
    /\ rPc = "idle"
    /\ rLocals = NoLocals
    /\ rResult = NoResult
    /\ rError = NoError

InitValidator ==
    /\ vArgs \in [answer : Answers, documents : DocumentLists]
    /\ vLlm \in LlmResponses \cup {CallFailed}
    /\ vPc = "call"
    /\ vResult = NoValidation
    /\ RetrieverIdle
    /\ AnalyzerIdle
    /\ RouterIdle
    /\ SynthesizerIdle
    /\ DetectorIdle
    /\ stats = NoStats
    /\ PipelineIdle
    /\ pending = 0
    /\ statsAtCall = NoStats

\* execute returns the combined result.
ValidatorReturn ==
    /\ vPc = "call"
    /\ vResult' = ValidatorExecute(vArgs.answer, vArgs.documents, vLlm)
    /\ vPc' = "done"
    /\ UNCHANGED <<vArgs, vLlm, stats, retrieverVars, analyzerVars, routerVars,
                   synthesizerVars, detectorVars, pipelineVars>>

NextValidator == ValidatorReturn

SpecValidator == InitValidator /\ [][NextValidator]_vars

\* ------------------------------------------- specification of the retriever
SearchQueryLists == UNION {[1..n -> QueryTexts] : n \in 0..MaxQueries}

InitRetriever ==
    /\ store \in Stores
    /\ rArgs \in [search_queries : SearchQueryLists, filters : {NoFilters},
                  top_k : 0..MaxTopK, rerank : BOOLEAN]
    /\ rPc = "call"
    /\ rLocals = NoLocals
    /\ rResult = NoResult
    /\ rError = NoError
    /\ ValidatorIdle
    /\ AnalyzerIdle
    /\ RouterIdle
    /\ SynthesizerIdle
    /\ DetectorIdle
    /\ stats = NoStats
    /\ PipelineIdle
    /\ pending = 0
    /\ statsAtCall = NoStats

\* execute returns its result dictionary.
RetrieverReturn ==
    /\ rPc = "call"
    /\ rResult' = RetrieverExecute(store, rArgs.search_queries, rArgs.filters,
                                   rArgs.top_k, rArgs.rerank)
    /\ rLocals' = RetrieverLocals(store, rArgs.search_queries, rArgs.filters)
    /\ rPc' = "done"
    /\ UNCHANGED <<store, rArgs, rError, stats, validatorVars, analyzerVars,
                   routerVars, synthesizerVars, detectorVars, pipelineVars>>

\* A search raises: execute re-raises it as AgentError("retriever", str(e)).
RetrieverRaise ==
    /\ rPc = "call"
    /\ rArgs.search_queries # <<>>
    /\ rError' = [agent_name |-> "retriever", message |-> "search failed"]
    /\ rPc' = "error"
    /\ UNCHANGED <<store, rArgs, rLocals, rResult, stats, validatorVars,
                   analyzerVars, routerVars, synthesizerVars, detectorVars,
                   pipelineVars>>

NextRetriever == RetrieverReturn \/ RetrieverRaise

SpecRetriever == InitRetriever /\ [][NextRetriever]_vars

\* -------------------------------------------- specification of the analyzer
\* Most citation markers in a generated analysis.
MaxCitations == 4
\* Most documents handed to the analyzer.
MaxAnalyzed == 2
\* Scores of the documents handed over: none recorded (read as 0), in range,
\* 1.0, and an unnormalised similarity above 1.0.
AnalyzerScores == {0, 97, 100, 120}
AnalyzedLists ==
    UNION {{[i \in 1..n |-> Doc(DocOrder[i], sc[i])] : sc \in [1..n -> AnalyzerScores]} :
              n \in 0..MaxAnalyzed}

\* A generated analysis: the hedging phrases of `hedged`, each in lower case,
\* in upper case or twice, then a word and `cites` citation markers.
HedgeTokens(phrase, style) ==
    CASE style = "lower" -> <<HedgeTok(phrase)>>
      [] style = "upper" -> <<HedgeTok(UpperCase(phrase))>>
      [] OTHER -> <<HedgeTok(phrase), HedgeTok(UpperCase(phrase))>>
AnalysisText(hedged, cites, style) ==
    Flatten([i \in DOMAIN analyzer_uncertainty_phrases |->
                IF analyzer_uncertainty_phrases[i] \in hedged
                THEN HedgeTokens(analyzer_uncertainty_phrases[i], style) ELSE <<>>])
    \o <<WordTok>> \o [j \in 1..cites |-> CiteDoc1]
AnalysisTexts ==
    {AnalysisText(hedged, cites, style) :
        hedged \in SUBSET SeqRange(analyzer_uncertainty_phrases),
        cites \in 0..MaxCitations, style \in {"lower", "upper", "twice"}}

InitAnalyzer ==
    /\ aArgs \in [documents : AnalyzedLists, analysis : AnalysisTexts]
    /\ aPc = "call"
    /\ aResult = NoAnalysis
    /\ RouterIdle
    /\ SynthesizerIdle
    /\ DetectorIdle
    /\ stats = NoStats
    /\ RetrieverIdle
    /\ ValidatorIdle
    /\ PipelineIdle
    /\ pending = 0
    /\ statsAtCall = NoStats

\* execute returns: the fixed answer for no documents, else the analysis the
\* text-generation call gave, with its citations and confidence.
AnalyzerReturn ==
    /\ aPc = "call"
    /\ aResult' = AnalyzerExecute(aArgs.documents, aArgs.analysis)
    /\ stats' = IF aArgs.documents = <<>> THEN stats ELSE Charge(stats, "analyzer")
    /\ aPc' = "done"
    /\ UNCHANGED <<aArgs, retrieverVars, validatorVars, routerVars, synthesizerVars,
                   detectorVars, pipelineVars>>

\* The text-generation call raises: execute re-raises it as
\* AgentError("analyzer", str(e)).
AnalyzerRaise ==
    /\ aPc = "call"
    /\ aArgs.documents # <<>>
    /\ aPc' = "error"
    /\ UNCHANGED <<aArgs, aResult, stats, retrieverVars, validatorVars, routerVars,
                   synthesizerVars, detectorVars, pipelineVars>>

NextAnalyzer == AnalyzerReturn \/ AnalyzerRaise

SpecAnalyzer == InitAnalyzer /\ [][NextAnalyzer]_vars

\* ---------------------------------------- specification of the synthesizer
\* Most plain words of a synthesized answer.
MaxWords == 102

\* A generated answer of `words` plain words followed by `cites` citation
\* markers.
SynthesizedText(words, cites) ==
    [i \in 1..words |-> WordTok] \o [j \in 1..cites |-> CiteDoc1]
SynthesizedTexts == {SynthesizedText(w, c) : w \in 0..MaxWords, c \in 0..1}

InitSynthesizer ==
    /\ sArgs \in [final_answer : SynthesizedTexts, query_type : SeqRange(valid_types)]
    /\ sPc = "call"
    /\ sResult = NoSynthesis
    /\ RetrieverIdle
    /\ ValidatorIdle
    /\ AnalyzerIdle
    /\ RouterIdle
    /\ DetectorIdle
    /\ stats = NoStats
    /\ PipelineIdle
    /\ pending = 0
    /\ statsAtCall = NoStats

\* execute returns the answer with its citations and structure tag.
SynthesizerReturn ==
    /\ sPc = "call"
    /\ sResult' = SynthesizerExecute(sArgs.final_answer, sArgs.query_type)
    /\ stats' = Charge(stats, "synthesizer")
    /\ sPc' = "done"
    /\ UNCHANGED <<sArgs, retrieverVars, validatorVars, analyzerVars, routerVars,
                   detectorVars, pipelineVars>>

\* The text-generation call raises: execute re-raises it as
\* AgentError("synthesizer", str(e)).
SynthesizerRaise ==
    /\ sPc = "call"
    /\ sPc' = "error"
    /\ UNCHANGED <<sArgs, sResult, stats, retrieverVars, validatorVars, analyzerVars,
                   routerVars, detectorVars, pipelineVars>>

NextSynthesizer == SynthesizerReturn \/ SynthesizerRaise

SpecSynthesizer == InitSynthesizer /\ [][NextSynthesizer]_vars

\* --------------------------------------------- specification of the router
\* Longest response of the text-generation call, in pieces.
MaxResponsePieces == 3

RouterPieces ==
    {" ", "unknown", "SIMPLE_QA", "Simple_QA", "COMPARISON", "comparison",
     "SUMMARIZATION", "ANALYSIS", "analysis", "EXTRACTION", "MULTI_HOP", "multi_hop"}
RouterTexts == UNION {[1..n -> RouterPieces] : n \in 0..MaxResponsePieces}

InitRouter ==
    /\ rtLlm \in {RouterResponse(text) : text \in RouterTexts} \cup {RouterCallFailed}
    /\ rtPc = "call"
    /\ rtResult = NoRouting
    /\ rtWarnings = <<>>
    /\ RetrieverIdle
    /\ ValidatorIdle
    /\ AnalyzerIdle
    /\ SynthesizerIdle
    /\ DetectorIdle
    /\ stats = NoStats
    /\ PipelineIdle
    /\ pending = 0
    /\ statsAtCall = NoStats

\* call_llm returned: execute settles on a query type and returns it.
RouterReturn ==
    /\ rtPc = "call"
    /\ rtLlm.kind = "response"
    /\ rtResult' = RouterExecute(rtLlm.text)
    /\ rtWarnings' = rtWarnings \o RouterWarnings(rtLlm.text)
    /\ stats' = Charge(stats, "router")
    /\ rtPc' = "done"
    /\ UNCHANGED <<rtLlm, retrieverVars, validatorVars, analyzerVars, synthesizerVars,
                   detectorVars, pipelineVars>>

\* call_llm raises: execute re-raises it as AgentError("router", str(e)).
RouterRaise ==
    /\ rtPc = "call"
    /\ rtLlm.kind = "call_failed"
    /\ rtPc' = "error"
    /\ UNCHANGED <<rtLlm, rtResult, rtWarnings, stats, retrieverVars, validatorVars,
                   analyzerVars, synthesizerVars, detectorVars, pipelineVars>>

NextRouter == RouterReturn \/ RouterRaise

SpecRouter == InitRouter /\ [][NextRouter]_vars

\* ----------------------------------- specification of the language detector
\* Longest text handed to detect, in characters.
MaxTextChars == 3

\* Devanagari KA, Bengali KA, Arabic ALEF, "A", "z", space and "1".
DetectorChars == {2325, 2453, 1575, 65, 122, 32, 49}
DetectorTexts == UNION {[1..n -> DetectorChars] : n \in 0..MaxTextChars}
LangdetectOutcomes ==
    {LangdetectRaises, LangdetectResults(<<>>),
     LangdetectResults(<<<<"en", 297>>, <<"hi", 3>>>>)}

InitDetector ==
    /\ dArgs \in [text : DetectorTexts, fallback : {"en", "ta"},
                  langdetect : LangdetectOutcomes]
    /\ dPc = "call"
    /\ dResult = NoDetection
    /\ RetrieverIdle
    /\ ValidatorIdle
    /\ AnalyzerIdle
    /\ RouterIdle
    /\ SynthesizerIdle
    /\ stats = NoStats
    /\ PipelineIdle
    /\ pending = 0
    /\ statsAtCall = NoStats

\* detect returns its pair.
DetectorReturn ==
    /\ dPc = "call"
    /\ dResult' = Detect(dArgs.text, dArgs.fallback, dArgs.langdetect)
    /\ dPc' = "done"
    /\ UNCHANGED <<dArgs, stats, retrieverVars, validatorVars, analyzerVars, routerVars,
                   synthesizerVars, pipelineVars>>

NextDetector == DetectorReturn

SpecDetector == InitDetector /\ [][NextDetector]_vars

\* ------------------------------------------------- claims on the retriever
IdsOf(docs) == {docs[i].id : i \in DOMAIN docs}

MatchCount(doc_id) ==
    Cardinality({rLocals.all_documents[i].source_query :
                    i \in {k \in DOMAIN rLocals.all_documents :
                               rLocals.all_documents[k].id = doc_id}})

RerankRan ==
    /\ rPc = "done"
    /\ RerankPath(rLocals.unique_documents, rArgs.top_k, rArgs.rerank)

\* C8: on the rerank path a document returned by N distinct search queries has
\* rerank score min(1.0, score + 0.05 * (N - 1)).
ClaimC8_RerankBonus ==
    RerankRan =>
        \A i \in DOMAIN rResult.documents :
            rResult.documents[i].rerank_score =
                Min(ScoreOne, rResult.documents[i].score
                        + QueryBonus * (MatchCount(rResult.documents[i].id) - 1))

IsNonIncreasing(keys) ==
    \A i \in DOMAIN keys : \A j \in DOMAIN keys : i < j => keys[i] >= keys[j]

\* C9: with rerank = true and more unique documents than top_k the returned
\* list is in non-increasing order of adjusted score (the rerank score, or the
\* score where none was set) and every adjusted score is at most 1.0;
\* otherwise the returned list is in non-increasing order of original score.
TheoremC9_ResultSorted ==
    rPc = "done" =>
        LET docs == rResult.documents
        IN  /\ IF rArgs.rerank /\ Len(rLocals.unique_documents) > rArgs.top_k
               THEN /\ \A i \in DOMAIN docs : RerankKey(docs[i]) <= ScoreOne
                    /\ IsNonIncreasing([i \in DOMAIN docs |-> RerankKey(docs[i])])
               ELSE IsNonIncreasing([i \in DOMAIN docs |-> docs[i].score])
            \* where _rerank ran, every returned record carries its rerank score
            /\ RerankRan =>
                  /\ \A i \in DOMAIN docs :
                        /\ docs[i].rerank_score # NoRerankScore
                        /\ docs[i].rerank_score <= ScoreOne
                  /\ IsNonIncreasing([i \in DOMAIN docs |-> docs[i].rerank_score])

\* A rerank of a fused list that was not already in score order, returning
\* two records.
WitnessC9_RerankOfUnsorted ==
    /\ RerankRan
    /\ Len(rResult.documents) >= 2
    /\ ~IsNonIncreasing([i \in DOMAIN rLocals.unique_documents |->
                            rLocals.unique_documents[i].score])

\* The place at which the searches first returned the document.
FirstSeen(doc_id) ==
    CHOOSE i \in DOMAIN rLocals.all_documents :
        /\ rLocals.all_documents[i].id = doc_id
        /\ \A j \in 1..(i - 1) : rLocals.all_documents[j].id # doc_id
\* The fused records with the score the output is ordered by: the adjusted
\* score where _rerank ran, the original score otherwise.
Ranked ==
    IF RerankRan THEN WithRerankScores(rLocals.unique_documents)
    ELSE rLocals.unique_documents
\* Record d comes before record e: a higher score, or the same score and
\* seen first.
Precedes(d, e) ==
    \/ RerankKey(d) > RerankKey(e)
    \/ RerankKey(d) = RerankKey(e) /\ FirstSeen(d.id) < FirstSeen(e.id)

\* C26: on the rerank path and on the plain path alike the output is fixed by
\* the search results: two documents of equal (adjusted) score stand in the
\* order in which the searches first returned them, earlier query first,
\* then earlier place in the query's results, and a document left out comes
\* after every document returned.
TheoremC26_StableTieBreak ==
    rPc = "done" =>
        LET docs == rResult.documents
        IN  /\ \A i, j \in DOMAIN docs :
                    (i < j /\ RerankKey(docs[i]) = RerankKey(docs[j]))
                        => FirstSeen(docs[i].id) < FirstSeen(docs[j].id)
            /\ \A i, j \in DOMAIN docs : i < j => Precedes(docs[i], docs[j])
            /\ \A i \in DOMAIN docs : docs[i] \in SeqRange(Ranked)
            /\ \A k \in DOMAIN Ranked :
                    Ranked[k] \notin SeqRange(docs) =>
                        \A i \in DOMAIN docs : Precedes(docs[i], Ranked[k])

\* A rerank returning two documents of equal adjusted score: the one the
\* first query returned stands first, although its record is the one of the
\* second query, where it stood behind the other.
WitnessC26_TieOnRerankPath ==
    /\ RerankRan
    /\ Len(rResult.documents) = 2
    /\ rResult.documents[1].rerank_score = rResult.documents[2].rerank_score
    /\ rResult.documents[1].id = "doc2"
    /\ rResult.documents[1].source_query = "q2"
    /\ rResult.documents[2].id = "doc1"
    /\ rArgs.search_queries = <<"q1", "q2">>

\* The results of the i-th search of the call, as the search returned them.
SearchResults(i) ==
    VectorSearch(store, rArgs.search_queries[i], TOP_K_RETRIEVAL, rArgs.filters,
                 MIN_SIMILARITY_SCORE)

\* C27, as the code has it: every record returned carries the text of the
\* search query that produced it and the 1-based number of that query in the
\* list of search queries; the record is one of that query's results.
TheoremC27_TaggedWithQueryAndItsNumber ==
    rPc = "done" =>
        \A n \in DOMAIN rResult.documents :
            LET d == rResult.documents[n]
            IN  /\ d.query_index \in DOMAIN rArgs.search_queries
                /\ rArgs.search_queries[d.query_index] = d.source_query
                /\ \E k \in DOMAIN SearchResults(d.query_index) :
                        /\ SearchResults(d.query_index)[k].id = d.id
                        /\ SearchResults(d.query_index)[k].score = d.score

\* Two records returned: the second result of the first query, tagged 1, and
\* the first result of the second query, tagged 2.
WitnessC27_SecondOfFirstFirstOfSecond ==
    /\ rPc = "done"
    /\ Len(rArgs.search_queries) = 2
    /\ \E n, m \in DOMAIN rResult.documents :
            /\ rResult.documents[n].query_index = 1
            /\ Len(SearchResults(1)) >= 2
            /\ SearchResults(1)[2].id = rResult.documents[n].id
            /\ rResult.documents[m].query_index = 2
            /\ SearchResults(2)[1].id = rResult.documents[m].id
            /\ rResult.documents[m].id # rResult.documents[n].id

\* C27: every record returned carries the text of the search query that
\* produced it and its own place in that query's list of results.
ClaimC27_TaggedWithQueryAndPosition ==
    rPc = "done" =>
        \A n \in DOMAIN rResult.documents :
            LET d == rResult.documents[n]
            IN  \E i \in DOMAIN rArgs.search_queries :
                    /\ rArgs.search_queries[i] = d.source_query
                    /\ d.query_index \in DOMAIN SearchResults(i)
                    /\ SearchResults(i)[d.query_index].id = d.id
                    /\ SearchResults(i)[d.query_index].score = d.score

\* C10: the returned list has at most top_k records, top_k being the caller's
\* argument; total_retrieved counts the records before fusion,
\* unique_documents those after it, and
\* len(documents) <= unique_documents <= total_retrieved.
ClaimC10_BoundedByTopK ==
    rPc = "done" =>
        /\ Len(rResult.documents) <= rArgs.top_k
        /\ rResult.total_retrieved = Len(rLocals.all_documents)
        /\ rResult.unique_documents = Len(rLocals.unique_documents)
        /\ Len(rResult.documents) <= rResult.unique_documents
        /\ rResult.unique_documents <= rResult.total_retrieved

\* C11: fusion applied to a fused list returns that list: the same records
\* in the same order.
TheoremC11_FusionIdempotent ==
    rPc = "done" =>
        /\ Deduplicate(rLocals.unique_documents) = rLocals.unique_documents
        /\ Deduplicate(Deduplicate(rLocals.all_documents))
              = Deduplicate(rLocals.all_documents)

\* A fusion that dropped a duplicate and kept two records or more, the first
\* scoring lower than a later one.
WitnessC11_FusedTwoOrMore ==
    /\ rPc = "done"
    /\ Len(rLocals.unique_documents) >= 2
    /\ Len(rLocals.all_documents) > Len(rLocals.unique_documents)
    /\ rLocals.unique_documents[1].score < rLocals.unique_documents[2].score

\* ------------------------------------------------- claims on the analyzer
\* The hedging phrases occurring in a text, in either case.
HedgesOf(analysis) ==
    {ph \in SeqRange(analyzer_uncertainty_phrases) :
        \E i \in DOMAIN analysis :
            \/ analysis[i].kind = "hedge" /\ analysis[i].raw[1] \in {ph, UpperCase(ph)}
            \/ analysis[i].kind = "unclear" /\ ph = "unclear"}
CitationCount(analysis) ==
    Cardinality({i \in DOMAIN analysis : analysis[i].kind = "cite"})

TheoremC13_NoDocumentsShortCircuit ==
    (aPc # "idle" /\ aArgs.documents = <<>>) =>
        /\ aPc = "done"
        /\ Len(aResult.analysis) = 1
        /\ aResult.analysis[1].kind = "No documents provided for analysis."
        /\ aResult.sources_used = {}
        /\ aResult.confidence = 0
        /\ aResult.citations_count = 0
        /\ stats["analyzer"] = NoStats["analyzer"]
        /\ (pc \notin {"idle", "analyze"} =>
              /\ state.analysis = aResult.analysis
              /\ state.sources_used = {}
              /\ state.analysis_confidence = 0)

\* A Hindi comparison query for which retrieval found nothing, analyzed.
WitnessC13_NoDocumentsHindi ==
    /\ aPc = "done"
    /\ aArgs.documents = <<>>
    /\ state.language = "hi"
    /\ state.query_type = "COMPARISON"
    /\ stats["router"].calls = 1
    /\ stats["analyzer"].calls = 0

\* ------------------------------------------ claims on the language detector
\* The text is empty or whitespace only.
Blank(text) == \A i \in DOMAIN text : text[i] \in {9, 10, 32}
\* detect handed the text to the script-frequency fallback.
FallbackRan ==
    /\ dPc = "done"
    /\ ~Blank(dArgs.text)
    /\ dArgs.langdetect.kind = "raises"

\* C23: the script-frequency fallback returns (fallback, 0.0) for a text with
\* no character in any of the ten script buckets; otherwise the language of
\* a bucket of maximal count, with confidence that count over the number of
\* classified characters; Devanagari-only text gives ("hi", 1.0); and detect
\* returns (fallback, 0.0) for an empty or whitespace-only text.
TheoremC23_ScriptFallback ==
    /\ (dPc = "done" /\ Blank(dArgs.text)) => dResult = Detection(dArgs.fallback, 0)
    /\ FallbackRan =>
          LET text == dArgs.text
              classified == {i \in DOMAIN text : ScriptOf(text[i]) # "none"}
              total == Cardinality(classified)
          IN  /\ (total = 0 => dResult = Detection(dArgs.fallback, 0))
              /\ (total > 0 =>
                    \E k \in DOMAIN script_names :
                        /\ \A j \in DOMAIN script_names :
                              ScriptCount(text, script_names[j])
                                  <= ScriptCount(text, script_names[k])
                        /\ dResult.lang = script_to_lang(script_names[k])
                        /\ dResult.confidence * total
                              = ScriptCount(text, script_names[k]) * DetectOne)
              /\ ((\A i \in DOMAIN text : ScriptOf(text[i]) = "devanagari")
                    => dResult = Detection("hi", DetectOne))

\* The fallback ran on a text of a Devanagari letter, a Latin letter and a
\* character of no bucket: confidence 1/2.
WitnessC23_HalfOfClassified ==
    /\ FallbackRan
    /\ Len(dArgs.text) = 3
    /\ ScriptCount(dArgs.text, "devanagari") = 1
    /\ ScriptCount(dArgs.text, "latin") = 1
    /\ dResult = Detection("hi", DetectOne \div 2)

\* ----------------------------------------------------- claims on the router
\* The ways a response may write a category, whatever the case.
Spellings(valid_type) ==
    CASE valid_type = "SIMPLE_QA" -> {"SIMPLE_QA", "Simple_QA", "simple_qa"}
      [] valid_type = "COMPARISON" -> {"COMPARISON", "Comparison", "comparison"}
      [] valid_type = "SUMMARIZATION" -> {"SUMMARIZATION", "summarization"}
      [] valid_type = "ANALYSIS" -> {"ANALYSIS", "analysis"}
      [] valid_type = "EXTRACTION" -> {"EXTRACTION", "extraction"}
      [] valid_type = "MULTI_HOP" -> {"MULTI_HOP", "multi_hop"}
\* The places of valid_types whose category the response names.
Named(text) ==
    {k \in DOMAIN valid_types :
        \E i \in DOMAIN text : text[i] \in Spellings(valid_types[k])}
\* The response is the category and whitespace around it, nothing more.
IsJust(text, valid_type) ==
    \E i \in DOMAIN text :
        /\ text[i] \in Spellings(valid_type)
        /\ \A j \in DOMAIN text : j # i => text[j] = " "

\* C22: whatever the response, the query type returned is one of the six
\* categories: the trimmed, upper-cased response if that is a category, else
\* the first category in the order of the enumeration that the normalized
\* response contains, else SIMPLE_QA with a warning logged; and the
\* text-generation call was made once.
TheoremC22_ClassifyTotal ==
    rtPc = "done" =>
        /\ rtResult.query_type \in SeqRange(valid_types)
        /\ \A k \in DOMAIN valid_types :
                IsJust(rtLlm.text, valid_types[k]) => rtResult.query_type = valid_types[k]
        /\ (Named(rtLlm.text) # {} =>
                \E k \in Named(rtLlm.text) :
                    /\ \A j \in Named(rtLlm.text) : k <= j
                    /\ rtResult.query_type = valid_types[k])
        /\ (Named(rtLlm.text) = {} =>
                /\ rtResult.query_type = "SIMPLE_QA"
                /\ rtWarnings # <<>>
                /\ rtWarnings[Len(rtWarnings)].level = "WARNING")
        /\ stats["router"].calls = statsAtCall["router"].calls + 1

\* A response naming MULTI_HOP, then ANALYSIS in lower case: ANALYSIS, the
\* earlier of the two in the enumeration, is returned and nothing is logged.
WitnessC22_LaterNamedFirstInOrder ==
    /\ rtPc = "done"
    /\ rtLlm.text = <<"MULTI_HOP", " ", "analysis">>
    /\ rtResult.query_type = "ANALYSIS"
    /\ rtWarnings = <<>>

\* ------------------------------------------------ claims on the synthesizer
\* The whitespace-separated words of a text: one per plain word, three per
\* citation marker "[Doc ID: <id>]".
WordsOf(text) ==
    Cardinality({i \in DOMAIN text : text[i].kind # "cite"}) + 3 * CitationCount(text)

DocIdTexts(documents) == {IdText(documents[i].id) : i \in DOMAIN documents}
Markers(answer) == {i \in DOMAIN answer : answer[i].kind = "cite"}

\* The inputs on which a step of execute raises: the call fails, the response
\* is JSON but no object, its issues are no list, or its confidence is no number.
ValidateRaises(llm) ==
    \/ llm.kind \in {"call_failed", "json_other"}
    \/ /\ llm.kind = "json_object"
       /\ (llm.issues_kind = "other" \/ llm.confidence = NotANumber)

\* The id a marker cites: its token without the surrounding whitespace.
CitedId(tok) == RStrip(LStrip(tok.raw))

\* The answer has no citation marker, or a marker whose id names no provided
\* document.
UncitedOrMiscited(answer, documents) ==
    \/ Markers(answer) = {}
    \/ \E i \in Markers(answer) : CitedId(answer[i]) \notin DocIdTexts(documents)

\* C4: an answer with no citation marker, or with a marker whose id is not the
\* id of a provided document, is returned with valid = false and
\* confidence <= 0.6, whatever the model's verdict (stated for the calls in
\* which no step raises; on those validate fails open, C5).
ClaimC4_MiscitedIsInvalidAndClamped ==
    (/\ vPc = "done"
     /\ ~ValidateRaises(vLlm)
     /\ UncitedOrMiscited(vArgs.answer, vArgs.documents))
    => (vResult.valid = FALSE /\ vResult.confidence <= ClampConfidence)

\* The answer has five words or more and a citation marker, and every marker
\* cites the id of a provided document.
WellCited(answer, documents) ==
    /\ WordCount(answer) >= VeryShortWords
    /\ Markers(answer) # {}
    /\ \A i \in Markers(answer) : CitedId(answer[i]) \in DocIdTexts(documents)

\* C6: for an answer of at least 5 words with at least one citation marker,
\* every cited id being the id of a provided document, the automated checks
\* report neither "No citations" nor "Invalid citation", and the combined
\* result keeps the model's valid flag and confidence.
ClaimC6_WellCitedKeepsModelVerdict ==
    (/\ vPc = "done"
     /\ ~ValidateRaises(vLlm)
     /\ WellCited(vArgs.answer, vArgs.documents))
    => LET auto == vResult.details.automated_checks
           llm == vResult.details.llm_validation
       IN  /\ \A i \in DOMAIN auto.automated_issues :
                  auto.automated_issues[i].kind \notin
                      {"No citations found in answer", "Invalid citation: Doc ID"}
           /\ auto.valid_citations = auto.citations_found
           /\ auto.citations_found = Cardinality(Markers(vArgs.answer))
           /\ vResult.valid = llm.valid
           /\ vResult.confidence = llm.confidence
           /\ llm = ParseValidation(vLlm).value

\* C28: a citation marker whose id, leading and trailing whitespace removed,
\* is the id of a provided document is not reported as an invalid citation
\* by the automated checks and is counted among the valid citations.
ClaimC28_CitationIdsTrimmed ==
    (vPc = "done" /\ ~ValidateRaises(vLlm)) =>
        LET auto == vResult.details.automated_checks
            provided == DocIdTexts(vArgs.documents)
            good == {i \in Markers(vArgs.answer) : CitedId(vArgs.answer[i]) \in provided}
        IN  /\ \A k \in DOMAIN auto.automated_issues :
                    auto.automated_issues[k].kind = "Invalid citation: Doc ID"
                        => RStrip(LStrip(auto.automated_issues[k].arg)) \notin provided
            /\ auto.valid_citations >= Cardinality(good)

\* The place of an automated check in the order the checks are made.
CheckRank(issue) ==
    CASE issue.kind = "No citations found in answer" -> 1
      [] issue.kind = "Invalid citation: Doc ID" -> 2
      [] issue.kind = "Answer is very short (< 5 words)" -> 3
      [] OTHER -> 4

\* C29: a response that parses as a JSON object keeps the fields it has and
\* gets valid = true, confidence = 0.8, issues = [] for those it lacks; a
\* response that is no JSON gives valid = false, confidence 0.6 and one issue
\* if its lower-cased text contains both "valid" and "false", and valid =
\* true, confidence 0.7 and no issue otherwise; the combined result lists the
\* model's issues first, then every automated issue in the order of the
\* checks, duplicates included.
TheoremC29_ParseRecoversAndIssuesConcatenate ==
    vPc = "done" =>
        LET parsed == ParseValidation(vLlm)
            llm == vResult.details.llm_validation
            auto == vResult.details.automated_checks
        IN  /\ vLlm.kind = "json_object" =>
                  /\ ~parsed.raised
                  /\ parsed.value.valid =
                        (IF vLlm.valid = "absent" THEN TRUE ELSE vLlm.valid = "true")
                  /\ parsed.value.confidence =
                        (IF vLlm.confidence = AbsentNumber THEN 80 ELSE vLlm.confidence)
                  /\ parsed.value.issues = vLlm.issues
                  /\ (vLlm.issues_kind = "absent" =>
                        parsed.value.issues_kind = "list" /\ parsed.value.issues = <<>>)
            /\ vLlm.kind = "text" =>
                  /\ ~parsed.raised
                  /\ vResult.details.error = ""
                  /\ IF vLlm.has_valid_word /\ vLlm.has_false_word
                     THEN /\ llm.valid = FALSE
                          /\ llm.confidence = 60
                          /\ llm.issues = <<ParseFallbackIssue>>
                     ELSE /\ llm.valid = TRUE
                          /\ llm.confidence = 70
                          /\ llm.issues = <<>>
            /\ vResult.details.error = "" =>
                  /\ llm = parsed.value
                  /\ vResult.issues = llm.issues \o auto.automated_issues
                  /\ \A i, j \in DOMAIN auto.automated_issues :
                        i < j => CheckRank(auto.automated_issues[i])
                                    <= CheckRank(auto.automated_issues[j])
                  /\ Cardinality({k \in DOMAIN auto.automated_issues :
                            auto.automated_issues[k].kind = "Invalid citation: Doc ID"})
                        = auto.citations_found - auto.valid_citations
                  /\ auto.citations_found = Cardinality(Markers(vArgs.answer))

\* A JSON object with an issue of the model and no valid or confidence field,
\* checked against an answer citing one unknown document twice: the model's
\* issue first, then the same automated issue twice.
WitnessC29_DefaultsAndDuplicateIssues ==
    /\ vPc = "done"
    /\ vLlm.kind = "json_object"
    /\ vLlm.valid = "absent"
    /\ vLlm.confidence = AbsentNumber
    /\ vResult.details.llm_validation.confidence = DefaultConfidence
    /\ Len(vResult.issues) >= 3
    /\ vResult.issues[1] = ModelIssue
    /\ vResult.issues[2] = InvalidCitationIssue(<<"doc999">>)
    /\ vResult.issues[3] = vResult.issues[2]

\* ------------------------------------------------- claims on the pipeline
StageOrder == <<"detect_language", "route", "plan", "retrieve", "analyze",
                "synthesize", "validate">>
IsPrefix(s, t) == Len(s) <= Len(t) /\ s = SubSeq(t, 1, Len(s))
Last(s) == s[Len(s)]
\* The tag each stage's agent gives its own errors.
AgentOf(node) ==
    CASE node = "route" -> "router"
      [] node = "plan" -> "planner"
      [] node = "retrieve" -> "retriever"
      [] node = "analyze" -> "analyzer"
      [] node = "synthesize" -> "synthesizer"
      [] OTHER -> node

\* C1: the stages are invoked in the order detect_language, route, plan,
\* retrieve, analyze, synthesize, validate, none twice; the node to run next is
\* the one after the last that returned, whose output is then in the state;
\* and a call that succeeds has invoked all seven.
TheoremC1_StagesInOrder ==
    /\ IsPrefix(nodesRun, StageOrder)
    /\ (pc \in SeqRange(StageOrder) => pc = StageOrder[Len(nodesRun) + 1])
    /\ (pc \in {"respond", "returned"} => nodesRun = StageOrder)
    /\ (pc = "analyze" => /\ rPc = "done"
                          /\ state.documents = rResult.documents
                          /\ state.total_retrieved = rResult.total_retrieved)
    /\ (pc = "respond" => /\ vPc = "done"
                          /\ state.validation_valid = vResult.valid
                          /\ state.validation_confidence = vResult.confidence
                          /\ state.validation_issues = vResult.issues)

\* A call that returned its result after the seven stages.
WitnessC1_AllStagesRan ==
    /\ pc = "returned"
    /\ nodesRun = StageOrder
    /\ state.documents # <<>>

\* C2: once a stage has failed, process_query is over: the failing stage is
\* the last one invoked, no result is returned, and one error was raised.
TheoremC2_FailureAborts ==
    /\ (raised # <<>> =>
          /\ pc = "raised"
          /\ Len(raised) = 1
          /\ finalResult = NoResponse
          /\ Last(nodesRun) \in {"route", "plan", "retrieve", "analyze", "synthesize"}
          /\ AgentOf(Last(nodesRun)) = raised[1].message[1])
    /\ (pc = "raised" => raised # <<>>)
    /\ (pc = "returned" => raised = <<>>)

\* A call aborted by a failure of the retrieve stage.
WitnessC2_RetrieveFailed ==
    /\ pc = "raised"
    /\ Last(nodesRun) = "retrieve"
    /\ Len(raised) = 1

\* C3: the error raised by process_query is tagged with the stage that failed.
ClaimC3_ErrorTaggedWithStage ==
    raised # <<>> => raised[1].agent_name = AgentOf(Last(nodesRun))

\* The fields of the state a stage writes.
OutputFields(node) ==
    CASE node = "detect_language" -> {"language", "language_confidence"}
      [] node = "route" -> {"query_type"}
      [] node = "plan" -> {"search_queries"}
      [] node = "retrieve" -> {"documents", "total_retrieved"}
      [] node = "analyze" -> {"analysis", "sources_used", "analysis_confidence"}
      [] node = "synthesize" -> {"answer", "citations"}
      [] node = "validate" -> {"validation_valid", "validation_confidence",
                               "validation_issues"}

\* A step taken by a stage leaves every field but the stage's own as it was.
StageWritesOwnFields ==
    pc \in SeqRange(StageOrder) =>
        \A f \in (DOMAIN state) \ OutputFields(pc) : state'[f] = state[f]

\* C24: a stage of a process_query run assigns only its own output fields:
\* every other field of the state, the query, user id and filters and the
\* fields written by earlier stages among them, is after the stage what it
\* was before.
TheoremC24_StagesWriteOwnFields == [][StageWritesOwnFields]_vars

\* The seven stages have run, each having written its fields, the
\* synthesizer citing another document than the analyzer did.
WitnessC24_EveryFieldWritten ==
    /\ pc = "respond"
    /\ state.language = "hi"
    /\ state.query_type = "SUMMARIZATION"
    /\ state.search_queries # <<>>
    /\ state.documents # <<>>
    /\ state.sources_used = {<<"doc1">>}
    /\ state.analysis_confidence > 0
    /\ state.citations # <<>>
    /\ \A i \in DOMAIN state.citations : state.citations[i].doc_id # <<"doc1">>
    /\ state.validation_issues # <<>>

\* C25: a query for which the retriever returns no document raises nothing
\* on that account and is answered with a fixed response: no source, 0
\* documents analyzed, and the same answer text for every such query.
ClaimC25_EmptyResultFixedResponse ==
    /\ (rPc = "done" /\ rResult.documents = <<>> /\ pc = "raised")
            => Last(nodesRun) \notin {"retrieve", "analyze"}
    /\ (pc = "returned" /\ state.documents = <<>>) =>
            /\ finalResult.metadata.documents_analyzed = 0
            /\ finalResult.sources = <<>>
    /\ Cardinality(emptyAnswers) <= 1

\* C14: the overall confidence of a returned result is
\* 0.2 * language_confidence + 0.4 * analysis_confidence
\* + 0.4 * validation_confidence of the final state, whatever the three are.
TheoremC14_OverallConfidenceWeights ==
    pc = "returned" =>
        finalResult.confidence =
            Fine(20 * state.language_confidence + 40 * state.validation_confidence)
            + 40 * state.analysis_confidence

\* A result returned with analysis confidence 0.0 and the other two positive.
WitnessC14_ZeroAnalysisConfidence ==
    /\ pc = "returned"
    /\ state.analysis_confidence = 0
    /\ state.language_confidence > 0
    /\ state.validation_confidence > 0
    /\ finalResult.confidence > 0

\* C15: the overall confidence of a returned result lies in [0, 1], whatever
\* the model answers the validator and whatever the language detection.
ClaimC15_OverallConfidenceInRange ==
    pc = "returned" =>
        /\ finalResult.confidence >= 0
        /\ finalResult.confidence <= OverallOne

\* The five agents that make text-generation calls.
CostAgents == {"router", "planner", "analyzer", "synthesizer", "validator"}
RECURSIVE SumOver(_, _)
SumOver(f, S) ==
    IF S = {} THEN 0
    ELSE LET a == CHOOSE x \in S : TRUE IN f[a] + SumOver(f, S \ {a})

\* C16: metadata.total_cost of a returned result is the sum of the cost
\* counters of router, planner, analyzer, synthesizer and validator as they
\* stand at the return; the retriever's counter is no part of it (and stays 0).
TheoremC16_TotalCostIsSumOfCounters ==
    pc = "returned" =>
        /\ finalResult.metadata.total_cost =
              SumOver([a \in CostAgents |-> stats[a].total_cost], CostAgents)
        /\ stats["retriever"].total_cost = 0

\* A second call returned, every one of the five agents having been charged.
WitnessC16_SecondCallReturned ==
    /\ pc = "returned"
    /\ pending = MaxCalls - 2
    /\ \A a \in CostAgents : stats[a].total_cost > 0
    /\ stats["validator"].calls = 2

\* C17: metadata.total_cost of a returned result is the cost of that call
\* alone: what the counters grew by since the call began.
ClaimC17_TotalCostPerQuery ==
    pc = "returned" =>
        finalResult.metadata.total_cost =
            SumOver([a \in CostAgents |->
                        stats[a].total_cost - statsAtCall[a].total_cost], CostAgents)

\* A passage as a string: all of its characters, nothing appended.
Whole(text) == [of |-> text, chars |-> TextLength(text), suffix |-> ""]

\* C18: every source preview's text is the first 200 characters of the
\* document's text: at most 200 characters long, and the text itself when
\* that has at most 200 characters.
ClaimC18_PreviewIsFirst200 ==
    pc = "returned" =>
        \A i \in DOMAIN finalResult.sources :
            /\ StrLen(finalResult.sources[i].text) <= 200
            /\ (TextLength(state.documents[i].text) <= 200 =>
                    finalResult.sources[i].text = Whole(state.documents[i].text))

\* The distinct ids the searches of the call returned.
SearchedIds == IdsOf(rLocals.all_documents)

\* C19: metadata.documents_analyzed is the number of source previews, the
\* previews are in the order of the retriever's output, and the count is
\* min(5, distinct ids the searches returned); a two-document corpus gives 2.
TheoremC19_DocumentsAnalyzed ==
    pc = "returned" =>
        /\ finalResult.metadata.documents_analyzed = Len(finalResult.sources)
        /\ Len(finalResult.sources) = Len(rResult.documents)
        /\ \A i \in DOMAIN finalResult.sources :
                /\ finalResult.sources[i].id = rResult.documents[i].id
                /\ finalResult.sources[i].score = rResult.documents[i].score
        /\ finalResult.metadata.documents_analyzed
              = Min(5, Cardinality(SearchedIds))
        /\ (store = TwoDocCorpus /\ SearchedIds = {"doc1", "doc2"}
                => finalResult.metadata.documents_analyzed = 2)

\* A result over six matching documents, five of them analyzed.
WitnessC19_SixMatchedFiveAnalyzed ==
    /\ pc = "returned"
    /\ Cardinality(SearchedIds) = 6
    /\ finalResult.metadata.documents_analyzed = 5
    /\ Len(finalResult.sources) = 5

\* C20: every vector search made for process_query(query, user_id, filters)
\* carries a filter restricting the results to user_id, whatever filters is.
ClaimC20_SearchFilteredByUser ==
    (pc # "idle" /\ rPc # "idle") => <<"user_id", state.user_id>> \in rArgs.filters

\* C5: when a step of validate raises, validate returns valid = true,
\* confidence = 0.5 and the single issue "Validation error: <message>";
\* nothing is raised, and process_query returns its result with that verdict.
TheoremC5_ValidateFailsOpen ==
    (vPc = "done" /\ ValidateRaises(vLlm)) =>
        /\ vResult.valid = TRUE
        /\ vResult.confidence = FailOpenConfidence
        /\ Len(vResult.issues) = 1
        /\ vResult.issues[1].kind = "Validation error"
        /\ vResult.issues[1].arg = <<vResult.details.error>>
        /\ vResult.details.error # ""
        /\ raised = <<>>
        /\ pc \in {"respond", "returned"}
        /\ (pc = "respond" => ENABLED Respond)
        /\ state.validation_valid = TRUE
        /\ state.validation_confidence = FailOpenConfidence
        /\ state.validation_issues = vResult.issues
        /\ (pc = "returned" =>
              /\ finalResult.answer = state.answer
              /\ finalResult.metadata.validation_valid = TRUE
              /\ finalResult.metadata.validation_issues = vResult.issues)

\* A query returned although the validator's response was JSON of the wrong
\* shape.
WitnessC5_ReturnedAfterValidatorError ==
    /\ pc = "returned"
    /\ vLlm.kind = "json_other"
    /\ finalResult.metadata.validation_issues
          = <<ValidationErrorIssue("TypeError")>>

\* ------------------------------------------------------------ termination
Running == SeqRange(StageOrder) \cup {"respond"}
Over == {"returned", "raised"}

\* A step taken at a stage invokes that stage, once, and ends either in the
\* error raised or at the stage after it (the response after the last).
StageStepAdvancesOrRaises ==
    pc \in SeqRange(StageOrder) =>
        /\ nodesRun' = Append(nodesRun, pc)
        /\ pc' \in {"raised",
                    IF Len(nodesRun') = Len(StageOrder) THEN "respond"
                    ELSE StageOrder[Len(nodesRun') + 1]}
        /\ (pc' = "raised") = (raised' # NoRaise)

\* C30: every process_query call under way ends, returning its result or
\* raising an error; no stage is invoked twice in a call, none after one that
\* failed, and each step out of a stage is that stage's one invocation.
TheoremC30_CallTerminates ==
    /\ [](\A i, j \in DOMAIN nodesRun : i # j => nodesRun[i] # nodesRun[j])
    /\ [][StageStepAdvancesOrRaises]_vars
    /\ (pc \in Running) ~> (pc \in Over)
    /\ [](pc = "returned" => finalResult # NoResponse /\ raised = NoRaise)
    /\ [](pc = "raised" => finalResult = NoResponse /\ raised # NoRaise)

\* A call ended by the error of its second stage, invoked once.
WitnessC30_RaisedAtRoute ==
    /\ pc = "raised"
    /\ nodesRun = <<"detect_language", "route">>
    /\ finalResult = NoResponse

====
